---- MODULE Spec2Model ----
(***************************************************************************)
(* RaceSync: schedule cache, refresh orchestration, favorites store and    *)
(* schedule merge, modelled from the TypeScript sources.                   *)
(*                                                                         *)
(* Time is counted in milliseconds, as Date.now() does.  AsyncStorage is   *)
(* the record `storage`, one field per key; an item is null (never set or  *)
(* removed), a text holding an encoded value, or a text that does not      *)
(* decode.  Every `await` of the code is one step of the model: the step   *)
(* performs the awaited storage call and runs the continuation up to the   *)
(* next await.                                                             *)
(*                                                                         *)
(* Spec          useRaceSchedule: the mount effect's loadSchedule() and    *)
(*               manual refresh() calls, which the hook lets overlap       *)
(* SpecFavorites the same with the user starring and unstarring races      *)
(* SpecRepo      saveSchedule and clearCache called one after the other    *)
(* SpecMerge     ScheduleMerger: merge() and repeated mergeWithFavorites   *)
(* SpecFavRepo   interleaved addFavorite and removeFavorite calls          *)
(* SpecCountdown useCountdownTimer: a view, its interval and the clock     *)
(* SpecParser    RaceDataParser.parse over a batch of raw races            *)
(* SpecFilter    filterByType and filterByFavorites                        *)
(* SpecSlots     getNextSlots of the data model                            *)
(* SpecFilterHook useRaceFilters: load, choices, writes and restarts       *)
(* SpecFavHooks  two mounted useFavorites instances                        *)
(* SpecLive      Spec with every suspended loadSchedule call resuming      *)
(*                                                                         *)
(* AsyncStorage writes and the schedule fetch may reject at every call; a  *)
(* rejected read is a case of the repository client's getCachedSchedule.   *)
(***************************************************************************)
EXTENDS Integers, Sequences, FiniteSets, TLC

VARIABLES
    storage,        \* AsyncStorage: [schedule, lastUpdated, favorites]
    now,            \* Date.now(), in ms
    ticks,          \* number of clock advances so far
    races,          \* useRaceSchedule state: races
    isLoading,      \* useRaceSchedule state: isLoading
    isRefreshing,   \* useRaceSchedule state: isRefreshing
    error,          \* useRaceSchedule state: error
    lastUpdated,    \* useRaceSchedule state: lastUpdated
    pc,             \* per loadSchedule call: the await it is suspended at
    cached,         \* per call: const cached
    stale,          \* per call: const isStale
    freshRaces,     \* per call: const freshRaces
    thrown,         \* per call: which awaited call rejected (caught err)
    refreshes,      \* number of manual refresh() calls so far
    repoPc,         \* repository client: the write its call is suspended at
    repoArg,        \* repository client: the races passed to saveSchedule
    repoOutcome,    \* repository client: how its last call ended
    mergePc,        \* mergeWithFavorites: the await it is suspended at
    existingRaces,  \* mergeWithFavorites: parameter existingRaces
    newRaces,       \* mergeWithFavorites: parameter newRaces
    mergeFavorites, \* mergeWithFavorites: const favorites
    mergeIndex,     \* mergeWithFavorites: position of the for loop
    removeRead,     \* removeFavorite: const favorites
    mergeResult,    \* mergeWithFavorites: the returned races
    mergeCalls,     \* merger client: number of mergeWithFavorites calls
    prevMerge,      \* merger client: how its previous call ended
    syncMerged,     \* merger client: what merge() returned
    repoResult,     \* repository client: what getCachedSchedule returned
    repoReadFailed, \* repository client: its last getItem rejected
    favPc,          \* per favorites caller: the await it is suspended at
    favOp,          \* per favorites caller: the call and its raceId
    favRead,        \* per favorites caller: const favorites
    favCalls,       \* number of favorites calls so far
    favOutcome,     \* per favorites caller: how its last call ended
    lastDone,       \* per raceId: the last add or remove that returned
    overlapped,     \* some favorites call started during another one
    view,           \* useCountdownTimer: mounted, inputs and state
    timers,         \* the intervals set and not cleared
    viewEvents,     \* number of mounts, input changes and unmounts so far
    fires,          \* number of interval callbacks run so far
    parserInput,    \* RaceDataParser.parse: parameter data
    parserOutcome,  \* RaceDataParser.parse: how the call ended
    parserResult,   \* RaceDataParser.parse: the returned races
    parserError,    \* RaceDataParser.parse: the thrown validation error
    filterRaces,    \* filterByType: parameter races
    filterSelector, \* filterByType: parameter filter
    filterFavoriteIds, \* filterByFavorites: parameter favoriteIds
    filterResult,   \* the races the filter function returned
    slotsEvent,     \* getNextSlots: parameter race
    slotsCalled,    \* getNextSlots: the call has returned
    slotsResult,    \* getNextSlots: the returned instants
    filterItem,     \* AsyncStorage: the item under SELECTED_FILTER
    selectedFilter, \* useRaceFilters state: selectedFilter
    filterIsLoading, \* useRaceFilters state: isLoading
    filterLoadPc,   \* loadPersistedFilter: the await it is suspended at
    setPending,     \* setSelectedFilter calls suspended at setItem
    setCalls,       \* number of setSelectedFilter calls so far
    restarts,       \* number of app restarts so far
    lastCompleted,  \* the filter of the last setSelectedFilter that returned
    lastPersisted,  \* the filter of the last setItem that succeeded
    lastChosen,     \* the filter of the last setSelectedFilter since start-up
    chosenEarly,    \* a filter was chosen while the stored one was loading
    instFavorites,  \* per useFavorites instance: state favorites
    instPc,         \* per useFavorites instance: the await it is suspended at
    instOp,         \* per useFavorites instance: the call and its raceId
    instCalls,      \* number of addFavorite and removeFavorite calls so far
    instDone        \* an addFavorite or removeFavorite call has returned

vars == <<storage, now, ticks, races, isLoading, isRefreshing, error,
          lastUpdated, pc, cached, stale, freshRaces, thrown, refreshes,
          repoPc, repoArg, repoOutcome,
          mergePc, existingRaces, newRaces, mergeFavorites, mergeIndex,
          removeRead, mergeResult, mergeCalls, prevMerge, syncMerged,
          repoResult, repoReadFailed,
          favPc, favOp, favRead, favCalls, favOutcome, lastDone, overlapped,
          view, timers, viewEvents, fires,
          parserInput, parserOutcome, parserResult, parserError,
          filterRaces, filterSelector, filterFavoriteIds, filterResult,
          slotsEvent, slotsCalled, slotsResult,
          filterItem, selectedFilter, filterIsLoading, filterLoadPc,
          setPending, setCalls, restarts, lastCompleted, lastPersisted,
          lastChosen, chosenEarly,
          instFavorites, instPc, instOp, instCalls, instDone>>

repoVars == <<repoPc, repoArg, repoOutcome, repoResult, repoReadFailed>>
mergeVars == <<mergePc, existingRaces, newRaces, mergeFavorites, mergeIndex,
               removeRead, mergeResult, mergeCalls, prevMerge, syncMerged>>
favVars == <<favPc, favOp, favRead, favCalls, favOutcome, lastDone,
             overlapped>>
countdownVars == <<view, timers, viewEvents, fires>>
parserVars == <<parserInput, parserOutcome, parserResult, parserError>>
filterVars == <<filterRaces, filterSelector, filterFavoriteIds, filterResult>>
slotsVars == <<slotsEvent, slotsCalled, slotsResult>>
filterHookVars == <<filterItem, selectedFilter, filterIsLoading, filterLoadPc,
                    setPending, setCalls, restarts, lastCompleted,
                    lastPersisted, lastChosen, chosenEarly>>
instVars == <<instFavorites, instPc, instOp, instCalls, instDone>>
moreVars == <<slotsVars, filterHookVars, instVars>>
auxVars == <<countdownVars, parserVars, filterVars, moreVars, moreVars>>

hookState == <<races, isLoading, isRefreshing, error, lastUpdated>>
callState == <<pc, cached, stale, freshRaces, thrown, refreshes>>
clock == <<now, ticks>>

----------------------------------------------------------------------------
(* Bounds *)

MaxTicks == 2
MaxRefreshes == 1
MaxMerges == 2
MaxFavCalls == 3
MaxViewEvents == 3
MaxFires == 2
MaxBatch == 2
MaxFilterLen == 3
MaxSetCalls == 2
MaxRestarts == 1
MaxInstCalls == 2

----------------------------------------------------------------------------
(* Program constants and data *)

STALE_THRESHOLD_MS == 24 * 60 * 60 * 1000

\* Date | null: the null date
NoDate == -1

\* The clock advances by one millisecond or by the staleness threshold, so
\* that ages of exactly 24 h and of 24 h + 1 ms both occur.
TickSteps == {1, STALE_THRESHOLD_MS}

RaceIds == {"1", "2"}

\* A Race, reduced to the fields the merge and the favorites read; name
\* stands for the details of the event (name, times, track, ...), and
\* isLive is the value the source of the race put into it.
Race(id) == [id |-> id, name |-> "new", isFavorited |-> FALSE,
             isLive |-> FALSE]

\* What the schedule source can deliver (loadSampleData today, the API
\* later): lists sorted by start time.
FreshFeeds == {<<Race("1"), Race("2")>>, <<Race("2")>>}

\* Race[] | null
NullRaces == [isNull |-> TRUE, val |-> <<>>]
SomeRaces(list) == [isNull |-> FALSE, val |-> list]

NoError == "null"

----------------------------------------------------------------------------
(* AsyncStorage items and their encodings *)

NullItem == [kind |-> "null"]
CorruptItem == [kind |-> "corrupt"]
TextItem(v) == [kind |-> "text", val |-> v]

\* JSON.stringify of a race list or favorites list
JSONstringify(v) == TextItem(v)
\* JSON.parse throws on a text that is not JSON
JSONparseThrows(item) == item.kind # "text"
JSONparse(item) == item.val

\* new Date().toISOString()
toISOString(ms) == TextItem(ms)
\* new Date(text).getTime(); NaN is NoDate
DateGetTime(item) == IF item.kind = "text" THEN item.val ELSE NoDate

\* parseISO(text).getTime() of a start time that passed validation
parseISO(item) == DateGetTime(item)

SetItem(st, key, item) == [st EXCEPT ![key] = item]
RemoveItem(st, key) == [st EXCEPT ![key] = NullItem]

----------------------------------------------------------------------------
(* AsyncStorageScheduleRepository *)

\* Mutant of getCachedSchedule: an undecodable text reads as an empty list
getCachedScheduleCorruptAsEmpty(st) ==
    IF st.schedule.kind = "null" THEN NullRaces
    ELSE IF JSONparseThrows(st.schedule) THEN SomeRaces(<<>>)
    ELSE SomeRaces(JSONparse(st.schedule))

getCachedSchedule(st) ==
    IF st.schedule.kind = "null" THEN NullRaces
    ELSE IF JSONparseThrows(st.schedule) THEN NullRaces
    ELSE SomeRaces(JSONparse(st.schedule))

getLastUpdated(st) ==
    IF st.lastUpdated.kind = "null" THEN NoDate
    ELSE DateGetTime(st.lastUpdated)

\* Mutant of isStale: an age of exactly the threshold is stale
isStaleAtThreshold(st, t) ==
    LET lu == getLastUpdated(st)
    IN  IF lu = NoDate THEN TRUE
        ELSE (t - lu) >= STALE_THRESHOLD_MS

isStale(st, t) ==
    LET lu == getLastUpdated(st)
    IN  IF lu = NoDate THEN TRUE
        ELSE (t - lu) > STALE_THRESHOLD_MS

\* saveSchedule: its first and its second write
saveScheduleEvents(st, list) == SetItem(st, "schedule", JSONstringify(list))
saveScheduleTimestamp(st, t) == SetItem(st, "lastUpdated", toISOString(t))

----------------------------------------------------------------------------
(* AsyncStorageFavoritesRepository *)

Favorite(id) == [raceId |-> id]

getFavorites(st) ==
    IF st.favorites.kind = "null" THEN <<>>
    ELSE IF JSONparseThrows(st.favorites) THEN <<>>
    ELSE JSONparse(st.favorites)

\* Mutant of addFavoriteWrite: the favorite is pushed without the check
addFavoriteWriteAlways(st, favorites, favorite) ==
    SetItem(st, "favorites", JSONstringify(Append(favorites, favorite)))

\* addFavorite after its read: the exists check, push and write
addFavoriteWrite(st, favorites, favorite) ==
    LET exists == \E i \in 1..Len(favorites) : favorites[i].raceId = favorite.raceId
    IN  IF exists THEN SetItem(st, "favorites", JSONstringify(favorites))
        ELSE SetItem(st, "favorites", JSONstringify(Append(favorites, favorite)))

addFavorite(st, favorite) == addFavoriteWrite(st, getFavorites(st), favorite)

\* Mutant of removeFavoriteWrite: the list is written back unfiltered
removeFavoriteWriteKeep(st, favorites, raceId) ==
    SetItem(st, "favorites", JSONstringify(favorites))

\* removeFavorite after its read: filter and write
removeFavoriteWrite(st, favorites, raceId) ==
    LET keep(f) == f.raceId # raceId
    IN  SetItem(st, "favorites", JSONstringify(SelectSeq(favorites, keep)))

removeFavorite(st, raceId) == removeFavoriteWrite(st, getFavorites(st), raceId)

\* Mutant of isFavorite: true as soon as anything is stored
isFavoriteAnyStored(st, raceId) == Len(getFavorites(st)) > 0

isFavorite(st, raceId) ==
    \E i \in 1..Len(getFavorites(st)) : getFavorites(st)[i].raceId = raceId

FavoriteIds(st) == {getFavorites(st)[i].raceId : i \in 1..Len(getFavorites(st))}
IdsOf(list) == {list[i].id : i \in 1..Len(list)}

----------------------------------------------------------------------------
(* useRaceSchedule *)

Procs == {"load", "refresh"}
isManualRefresh(p) == p = "refresh"

\* Mutant of Finally: setIsLoading(false) is left out
FinallyRefreshingOnly(p) ==
    /\ isRefreshing' = FALSE
    /\ UNCHANGED isLoading
    /\ pc' = [pc EXCEPT ![p] = "done"]

\* finally { setIsLoading(false); setIsRefreshing(false); }
Finally(p) ==
    /\ isLoading' = FALSE
    /\ isRefreshing' = FALSE
    /\ pc' = [pc EXCEPT ![p] = "done"]

\* catch (err) { setError(message); ... await repository.getCachedSchedule()
Catch(p, what) ==
    /\ thrown' = [thrown EXCEPT ![p] = what]
    /\ error' = what
    /\ pc' = [pc EXCEPT ![p] = "fbGetCached"]

\* loadSchedule(isManualRefresh) up to its first await
Start(p) ==
    /\ \/ pc[p] = "idle"
       \/ /\ isManualRefresh(p)
          /\ pc[p] = "done"
    /\ isManualRefresh(p) => (pc["load"] # "idle" /\ refreshes < MaxRefreshes)
    /\ IF isManualRefresh(p)
       THEN isRefreshing' = TRUE /\ UNCHANGED isLoading
       ELSE isLoading' = TRUE /\ UNCHANGED isRefreshing
    /\ error' = NoError
    /\ pc' = [pc EXCEPT ![p] = "getCached"]
    /\ cached' = [cached EXCEPT ![p] = NullRaces]
    /\ stale' = [stale EXCEPT ![p] = FALSE]
    /\ freshRaces' = [freshRaces EXCEPT ![p] = NullRaces]
    /\ thrown' = [thrown EXCEPT ![p] = "none"]
    /\ refreshes' = IF isManualRefresh(p) THEN refreshes + 1 ELSE refreshes
    /\ UNCHANGED <<storage, clock, races, lastUpdated>>
    /\ UNCHANGED <<repoVars, mergeVars, favVars, auxVars>>

\* const cached = await repository.getCachedSchedule();
GetCached(p) ==
    /\ pc[p] = "getCached"
    /\ cached' = [cached EXCEPT ![p] = getCachedSchedule(storage)]
    /\ pc' = [pc EXCEPT ![p] = "isStale"]
    /\ UNCHANGED <<storage, clock, hookState, stale, freshRaces, thrown, refreshes>>
    /\ UNCHANGED <<repoVars, mergeVars, favVars, auxVars>>

\* const isStale = await repository.isStale();
IsStale(p) ==
    /\ pc[p] = "isStale"
    /\ stale' = [stale EXCEPT ![p] = isStale(storage, now)]
    /\ pc' = [pc EXCEPT ![p] = "getLastUpdated"]
    /\ UNCHANGED <<storage, clock, hookState, cached, freshRaces, thrown, refreshes>>
    /\ UNCHANGED <<repoVars, mergeVars, favVars, auxVars>>

\* Mutant of GetLastUpdated: the branch forgets !isManualRefresh
GetLastUpdatedIgnoreManual(p) ==
    /\ pc[p] = "getLastUpdated"
    /\ IF ~cached[p].isNull /\ ~stale[p]
       THEN /\ races' = cached[p].val
            /\ lastUpdated' = getLastUpdated(storage)
            /\ Finally(p)
            /\ UNCHANGED error
       ELSE /\ pc' = [pc EXCEPT ![p] = "fetch"]
            /\ UNCHANGED hookState
    /\ cached' = [cached EXCEPT ![p] = NullRaces]
    /\ stale' = [stale EXCEPT ![p] = FALSE]
    /\ UNCHANGED <<storage, clock, freshRaces, thrown, refreshes>>
    /\ UNCHANGED <<repoVars, mergeVars, favVars, auxVars>>

\* const lastUpdatedTime = await repository.getLastUpdated(); and the branch
GetLastUpdated(p) ==
    /\ pc[p] = "getLastUpdated"
    /\ IF ~cached[p].isNull /\ ~stale[p] /\ ~isManualRefresh(p)
       THEN /\ races' = cached[p].val
            /\ lastUpdated' = getLastUpdated(storage)
            /\ Finally(p)
            /\ UNCHANGED error
       ELSE /\ pc' = [pc EXCEPT ![p] = "fetch"]
            /\ UNCHANGED hookState
    \* cached and isStale are not read again
    /\ cached' = [cached EXCEPT ![p] = NullRaces]
    /\ stale' = [stale EXCEPT ![p] = FALSE]
    /\ UNCHANGED <<storage, clock, freshRaces, thrown, refreshes>>
    /\ UNCHANGED <<repoVars, mergeVars, favVars, auxVars>>

\* const freshRaces = await loadSampleData();
Fetch(p) ==
    /\ pc[p] = "fetch"
    /\ \/ \E list \in FreshFeeds :
             /\ freshRaces' = [freshRaces EXCEPT ![p] = SomeRaces(list)]
             /\ pc' = [pc EXCEPT ![p] = "saveEvents"]
             /\ UNCHANGED <<hookState, thrown>>
       \/ /\ Catch(p, "fetch")
          /\ UNCHANGED <<races, isLoading, isRefreshing, lastUpdated, freshRaces>>
    /\ UNCHANGED <<storage, clock, cached, stale, refreshes>>
    /\ UNCHANGED <<repoVars, mergeVars, favVars, auxVars>>

\* saveSchedule: await AsyncStorage.setItem(SCHEDULE, ...)
SaveEvents(p) ==
    /\ pc[p] = "saveEvents"
    /\ \/ /\ storage' = saveScheduleEvents(storage, freshRaces[p].val)
          /\ pc' = [pc EXCEPT ![p] = "saveTimestamp"]
          /\ UNCHANGED <<hookState, thrown>>
       \/ /\ Catch(p, "save")
          /\ UNCHANGED <<storage, races, isLoading, isRefreshing, lastUpdated>>
    /\ UNCHANGED <<clock, cached, stale, freshRaces, refreshes>>
    /\ UNCHANGED <<repoVars, mergeVars, favVars, auxVars>>

\* saveSchedule: await AsyncStorage.setItem(SCHEDULE_LAST_UPDATED, ...);
\* then setRaces(freshRaces).  The stored instant is the clock's reading at
\* the write.
SaveTimestamp(p) ==
    /\ pc[p] = "saveTimestamp"
    /\ \/ /\ storage' = saveScheduleTimestamp(storage, now)
          /\ races' = freshRaces[p].val
          /\ pc' = [pc EXCEPT ![p] = "getNewLastUpdated"]
          /\ UNCHANGED <<isLoading, isRefreshing, error, lastUpdated, thrown>>
       \/ /\ Catch(p, "save")
          /\ UNCHANGED <<storage, races, isLoading, isRefreshing, lastUpdated>>
    /\ UNCHANGED <<clock, cached, stale, freshRaces, refreshes>>
    /\ UNCHANGED <<repoVars, mergeVars, favVars, auxVars>>

\* const newLastUpdated = await repository.getLastUpdated();
GetNewLastUpdated(p) ==
    /\ pc[p] = "getNewLastUpdated"
    /\ lastUpdated' = getLastUpdated(storage)
    /\ Finally(p)
    /\ UNCHANGED <<storage, clock, races, error, cached, stale, freshRaces,
                   thrown, refreshes>>
    /\ UNCHANGED <<repoVars, mergeVars, favVars, auxVars>>

\* Mutant of FallbackGetCached: the fallback reads the cache but shows nothing
FallbackGetCachedKeep(p) ==
    /\ pc[p] = "fbGetCached"
    /\ LET fallback == getCachedSchedule(storage)
       IN  IF ~fallback.isNull
           THEN /\ races' = <<>>
                /\ pc' = [pc EXCEPT ![p] = "fbGetLastUpdated"]
                /\ UNCHANGED <<isLoading, isRefreshing, lastUpdated>>
           ELSE /\ Finally(p)
                /\ UNCHANGED <<races, lastUpdated>>
    /\ UNCHANGED <<storage, clock, error, cached, stale, freshRaces, thrown,
                   refreshes>>
    /\ UNCHANGED <<repoVars, mergeVars, favVars, auxVars>>

\* catch: const cached = await repository.getCachedSchedule();
FallbackGetCached(p) ==
    /\ pc[p] = "fbGetCached"
    /\ LET fallback == getCachedSchedule(storage)
       IN  IF ~fallback.isNull
           THEN /\ races' = fallback.val
                /\ pc' = [pc EXCEPT ![p] = "fbGetLastUpdated"]
                /\ UNCHANGED <<isLoading, isRefreshing, lastUpdated>>
           ELSE /\ Finally(p)
                /\ UNCHANGED <<races, lastUpdated>>
    /\ UNCHANGED <<storage, clock, error, cached, stale, freshRaces, thrown,
                   refreshes>>
    /\ UNCHANGED <<repoVars, mergeVars, favVars, auxVars>>

\* Mutant of FallbackGetLastUpdated: the fallback stamps the cache as updated
FallbackGetLastUpdatedTouch(p) ==
    /\ pc[p] = "fbGetLastUpdated"
    /\ storage' = saveScheduleTimestamp(storage, now)
    /\ lastUpdated' = now
    /\ Finally(p)
    /\ UNCHANGED <<clock, races, error, cached, stale, freshRaces,
                   thrown, refreshes>>
    /\ UNCHANGED <<repoVars, mergeVars, favVars, auxVars>>

\* catch: const cachedLastUpdated = await repository.getLastUpdated();
FallbackGetLastUpdated(p) ==
    /\ pc[p] = "fbGetLastUpdated"
    /\ lastUpdated' = getLastUpdated(storage)
    /\ Finally(p)
    /\ UNCHANGED <<storage, clock, races, error, cached, stale, freshRaces,
                   thrown, refreshes>>
    /\ UNCHANGED <<repoVars, mergeVars, favVars, auxVars>>

loadSchedule(p) ==
    \/ Start(p)
    \/ GetCached(p)
    \/ IsStale(p)
    \/ GetLastUpdated(p)
    \/ Fetch(p)
    \/ SaveEvents(p)
    \/ SaveTimestamp(p)
    \/ GetNewLastUpdated(p)
    \/ FallbackGetCached(p)
    \/ FallbackGetLastUpdated(p)

----------------------------------------------------------------------------
(* useFavorites, driven by the star of a displayed race card *)

\* useFavorites.addFavorite -> repo.addFavorite
UserAddFavorite ==
    /\ \E id \in IdsOf(races) :
          /\ id \notin FavoriteIds(storage)
          /\ storage' = addFavorite(storage, Favorite(id))
    /\ UNCHANGED <<clock, hookState, callState>>
    /\ UNCHANGED <<repoVars, mergeVars, favVars, auxVars>>

\* useFavorites.removeFavorite -> repo.removeFavorite
UserRemoveFavorite ==
    /\ \E id \in FavoriteIds(storage) :
          storage' = removeFavorite(storage, id)
    /\ UNCHANGED <<clock, hookState, callState>>
    /\ UNCHANGED <<repoVars, mergeVars, favVars, auxVars>>

----------------------------------------------------------------------------
(* Clock *)

Tick ==
    /\ ticks < MaxTicks
    /\ \E d \in TickSteps : now' = now + d
    /\ ticks' = ticks + 1
    /\ UNCHANGED <<storage, hookState, callState>>
    /\ UNCHANGED <<repoVars, mergeVars, favVars, auxVars>>

----------------------------------------------------------------------------
(* The app: what AsyncStorage holds when the screen mounts *)

InitialStorages ==
    { [schedule |-> NullItem, lastUpdated |-> NullItem, favorites |-> NullItem],
      [schedule |-> JSONstringify(<<Race("1")>>), lastUpdated |-> toISOString(0),
       favorites |-> NullItem],
      [schedule |-> CorruptItem, lastUpdated |-> toISOString(0),
       favorites |-> NullItem],
      [schedule |-> JSONstringify(<<Race("1")>>), lastUpdated |-> CorruptItem,
       favorites |-> NullItem] }

\* the previous call of the merger client: none yet
NoMerge == [outcome |-> "none", result |-> <<>>, favorites |-> NullItem]

\* the instances of useFavorites (one per FavoriteButton) and their call
Callers == {"a", "b"}
NoOp == [op |-> "none", raceId |-> ""]

\* no repository client and no merge
RepoIdle ==
    /\ repoPc = "idle"
    /\ repoArg = <<>>
    /\ repoOutcome = "none"
    /\ repoResult = NullRaces
    /\ repoReadFailed = FALSE

MergeIdle ==
    /\ mergePc = "idle"
    /\ existingRaces = <<>>
    /\ newRaces = <<>>
    /\ mergeFavorites = <<>>
    /\ mergeIndex = 0
    /\ removeRead = <<>>
    /\ mergeResult = <<>>
    /\ mergeCalls = 0
    /\ prevMerge = NoMerge
    /\ syncMerged = NullRaces

\* no favorites call
FavIdle ==
    /\ favPc = [c \in Callers |-> "idle"]
    /\ favOp = [c \in Callers |-> NoOp]
    /\ favRead = [c \in Callers |-> <<>>]
    /\ favCalls = 0
    /\ favOutcome = [c \in Callers |-> "none"]
    /\ lastDone = [id \in RaceIds |->
                      IF id \in FavoriteIds(storage) THEN "add" ELSE "none"]
    /\ overlapped = FALSE

\* no countdown view mounted
NoCountdown == [kind |-> "none", a |-> 0, b |-> 0]
NoView == [mounted |-> FALSE, startTime |-> NullItem, durationMinutes |-> 0,
           countdown |-> NoCountdown, isLive |-> FALSE, shownAt |-> 0,
           intervalId |-> 0]

CountdownIdle ==
    /\ view = NoView
    /\ timers = {}
    /\ viewEvents = 0
    /\ fires = 0

\* no parse call
NoValidationError == [index |-> 0, field |-> "none"]

ParserIdle ==
    /\ parserInput = <<>>
    /\ parserOutcome = "none"
    /\ parserResult = <<>>
    /\ parserError = NoValidationError

\* no filter call
NoSlotsEvent == [type |-> "none", startTime |-> NullItem, repeatInterval |-> 0]

SlotsIdle ==
    /\ slotsEvent = NoSlotsEvent
    /\ slotsCalled = FALSE
    /\ slotsResult = <<>>

\* The mounted useFavorites instances: the schedule screen's and a
\* FavoriteButton's
Instances == {"screen", "button"}

\* useFavorites before its mount effect has read the favorites
InstIdle ==
    /\ instFavorites = [i \in Instances |-> <<>>]
    /\ instPc = [i \in Instances |-> "getFavorites"]
    /\ instOp = [i \in Instances |-> NoOp]
    /\ instCalls = 0
    /\ instDone = FALSE

\* useRaceFilters before its mount effect has read the stored filter
FilterHookIdle ==
    /\ filterItem = NullItem
    /\ selectedFilter = "all"
    /\ filterIsLoading = TRUE
    /\ filterLoadPc = "getItem"
    /\ setPending = {}
    /\ setCalls = 0
    /\ restarts = 0
    /\ lastCompleted = "none"
    /\ lastPersisted = "none"
    /\ lastChosen = "none"
    /\ chosenEarly = FALSE

FilterIdle ==
    /\ filterRaces = <<>>
    /\ filterSelector = "none"
    /\ filterFavoriteIds = <<>>
    /\ filterResult = <<>>

\* useState initial values; no loadSchedule call yet
HookInit ==
    /\ races = <<>>
    /\ isLoading = TRUE
    /\ isRefreshing = FALSE
    /\ error = NoError
    /\ lastUpdated = NoDate
    /\ pc = [p \in Procs |-> "idle"]
    /\ cached = [p \in Procs |-> NullRaces]
    /\ stale = [p \in Procs |-> FALSE]
    /\ freshRaces = [p \in Procs |-> NullRaces]
    /\ thrown = [p \in Procs |-> "none"]
    /\ refreshes = 0

Init ==
    /\ storage \in InitialStorages
    /\ now = 0
    /\ ticks = 0
    /\ HookInit
    /\ RepoIdle
    /\ MergeIdle
    /\ FavIdle
    /\ CountdownIdle
    /\ SlotsIdle
    /\ InstIdle
    /\ FilterHookIdle
    /\ ParserIdle
    /\ FilterIdle

Next ==
    \/ \E p \in Procs : loadSchedule(p)
    \/ Tick

Spec == Init /\ [][Next]_vars

\* A loadSchedule call that is suspended at an await resumes: AsyncStorage
\* and the schedule source settle every promise, and the event loop runs
\* every continuation
Resume(p) == pc[p] \notin {"idle", "done"} /\ loadSchedule(p)

SpecLive == Spec /\ \A p \in Procs : WF_vars(Resume(p))

\* The same app with the user starring and unstarring displayed races
NextFavorites ==
    \/ \E p \in Procs : loadSchedule(p)
    \/ Tick
    \/ UserAddFavorite
    \/ UserRemoveFavorite

SpecFavorites == Init /\ [][NextFavorites]_vars

----------------------------------------------------------------------------
(* A client of AsyncStorageScheduleRepository calling saveSchedule and     *)
(* clearCache one after the other; each storage write may reject.          *)

hookVars == <<hookState, callState>>

SavedLists == FreshFeeds \cup {<<>>}

\* Mutant of RepoSaveEvents: saveSchedule writes the timestamp first
RepoSaveTimestampFirst ==
    /\ repoPc = "idle"
    /\ \E list \in SavedLists :
          /\ repoArg' = list
          /\ \/ /\ storage' = saveScheduleTimestamp(storage, now)
                /\ repoPc' = "saveTimestamp"
                /\ repoOutcome' = "none"
             \/ /\ repoOutcome' = "saveEventsThrew"
                /\ UNCHANGED <<storage, repoPc>>
    /\ UNCHANGED <<clock, repoResult, repoReadFailed, hookVars, mergeVars, favVars, auxVars>>

\* saveSchedule(races): await AsyncStorage.setItem(SCHEDULE, ...)
RepoSaveEvents ==
    /\ repoPc = "idle"
    /\ \E list \in SavedLists :
          /\ repoArg' = list
          /\ \/ /\ storage' = saveScheduleEvents(storage, list)
                /\ repoPc' = "saveTimestamp"
                /\ repoOutcome' = "none"
             \/ /\ repoOutcome' = "saveEventsThrew"
                /\ UNCHANGED <<storage, repoPc>>
    /\ UNCHANGED <<clock, repoResult, repoReadFailed, hookVars, mergeVars, favVars, auxVars>>

\* saveSchedule: await AsyncStorage.setItem(SCHEDULE_LAST_UPDATED, ...)
RepoSaveTimestamp ==
    /\ repoPc = "saveTimestamp"
    /\ \/ /\ storage' = saveScheduleTimestamp(storage, now)
          /\ repoOutcome' = "returned"
       \/ /\ repoOutcome' = "saveTimestampThrew"
          /\ UNCHANGED storage
    /\ repoPc' = "idle"
    /\ UNCHANGED <<clock, repoArg, repoResult, repoReadFailed, hookVars, mergeVars, favVars, auxVars>>

\* clearCache(): await AsyncStorage.removeItem(SCHEDULE)
RepoClearEvents ==
    /\ repoPc = "idle"
    /\ \/ /\ storage' = RemoveItem(storage, "schedule")
          /\ repoPc' = "clearTimestamp"
          /\ repoOutcome' = "none"
       \/ /\ repoOutcome' = "clearEventsThrew"
          /\ UNCHANGED <<storage, repoPc>>
    /\ UNCHANGED <<clock, repoArg, repoResult, repoReadFailed, hookVars, mergeVars, favVars, auxVars>>

\* clearCache: await AsyncStorage.removeItem(SCHEDULE_LAST_UPDATED)
RepoClearTimestamp ==
    /\ repoPc = "clearTimestamp"
    /\ \/ /\ storage' = RemoveItem(storage, "lastUpdated")
          /\ repoOutcome' = "returned"
       \/ /\ repoOutcome' = "clearTimestampThrew"
          /\ UNCHANGED storage
    /\ repoPc' = "idle"
    /\ UNCHANGED <<clock, repoArg, repoResult, repoReadFailed, hookVars, mergeVars, favVars, auxVars>>

\* Mutant of RepoGetCached: a rejected getItem is not caught
RepoGetCachedUncaught ==
    /\ repoPc = "idle"
    /\ \E rejected \in BOOLEAN :
          /\ repoReadFailed' = rejected
          /\ IF rejected
             THEN /\ repoOutcome' = "getCachedThrew"
                  /\ UNCHANGED repoResult
             ELSE /\ repoOutcome' = "getCachedReturned"
                  /\ repoResult' = getCachedSchedule(storage)
    /\ UNCHANGED <<storage, clock, repoPc, repoArg, hookVars, mergeVars, favVars, auxVars>>

\* getCachedSchedule(): await AsyncStorage.getItem(SCHEDULE), which may
\* reject; the catch block returns null
RepoGetCached ==
    /\ repoPc = "idle"
    /\ \E rejected \in BOOLEAN :
          /\ repoReadFailed' = rejected
          /\ repoResult' = IF rejected THEN NullRaces
                           ELSE getCachedSchedule(storage)
    /\ repoOutcome' = "getCachedReturned"
    /\ UNCHANGED <<storage, clock, repoPc, repoArg, hookVars, mergeVars, favVars, auxVars>>

NextRepo ==
    \/ RepoGetCached
    \/ RepoSaveEvents
    \/ RepoSaveTimestamp
    \/ RepoClearEvents
    \/ RepoClearTimestamp
    \/ Tick

SpecRepo == Init /\ [][NextRepo]_vars

----------------------------------------------------------------------------
(* ScheduleMerger, called by a client: merge() once, mergeWithFavorites    *)
(* again and again with the same fresh list                                *)

\* merge(existingRaces, newRaces): the new races, each with the isFavorited
\* of the existing race of the same id (the last one the Map was set to)
merge(existing, new) ==
    LET same(i) == {j \in 1..Len(existing) : existing[j].id = new[i].id}
        last(i) == CHOOSE j \in same(i) : \A k \in same(i) : k <= j
    IN  [i \in 1..Len(new) |->
            IF same(i) # {}
            THEN [new[i] EXCEPT !.isFavorited = existing[last(i)].isFavorited]
            ELSE new[i]]

\* if (!newRaceIds.has(favorite.raceId))
IsOrphanFlipped(favorite, list) == favorite.raceId \in IdsOf(list)
IsOrphan(favorite, list) == favorite.raceId \notin IdsOf(list)

\* Mutant of NextOrphan: the loop removes every favorite
NextOrphanEvery(favorites, list, i) == i

\* The for loop runs without suspending up to the next favorite it removes:
\* the first position from i on that holds an orphan, or Len + 1.
RECURSIVE NextOrphan(_, _, _)
NextOrphan(favorites, list, i) ==
    IF i > Len(favorites) THEN i
    ELSE IF IsOrphan(favorites[i], list) THEN i
    ELSE NextOrphan(favorites, list, i + 1)

\* Mutant of WithFavoriteStatus: the new races are returned as they came
WithFavoriteStatusAsIs(list, favorites) == list

\* newRaces.map(newRace => ({...newRace, isFavorited: favoriteRaceIds.has(id)}))
WithFavoriteStatus(list, favorites) ==
    LET favoriteRaceIds == {favorites[i].raceId : i \in 1..Len(favorites)}
    IN  [i \in 1..Len(list) |->
            [list[i] EXCEPT !.isFavorited = list[i].id \in favoriteRaceIds]]

\* Mutant of MergeLoopFrom: the returned list is built from existingRaces
MergeLoopFromExisting(favorites, i) ==
    LET j == NextOrphan(favorites, newRaces, i)
    IN  IF j <= Len(favorites)
        THEN /\ mergeIndex' = j
             /\ mergePc' = "removeRead"
             /\ UNCHANGED mergeResult
        ELSE /\ mergeIndex' = j
             /\ mergePc' = "returned"
             /\ mergeResult' = WithFavoriteStatus(existingRaces, favorites)

\* Continue the loop from position i: suspend in the next removeFavorite, or
\* leave the loop and return the merged races.
MergeLoopFrom(favorites, i) ==
    LET j == NextOrphan(favorites, newRaces, i)
    IN  IF j <= Len(favorites)
        THEN /\ mergeIndex' = j
             /\ mergePc' = "removeRead"
             /\ UNCHANGED mergeResult
        ELSE /\ mergeIndex' = j
             /\ mergePc' = "returned"
             /\ mergeResult' = WithFavoriteStatus(newRaces, favorites)

mergeClient == <<mergeCalls, prevMerge, syncMerged>>

\* const favorites = await favoritesRepository.getFavorites();
MergeGetFavorites ==
    /\ mergePc = "getFavorites"
    /\ mergeFavorites' = getFavorites(storage)
    /\ MergeLoopFrom(getFavorites(storage), 1)
    /\ UNCHANGED <<storage, clock, hookVars, repoVars, favVars, auxVars, mergeClient,
                   existingRaces, newRaces, removeRead>>

\* removeFavorite: const favorites = await this.getFavorites();
MergeRemoveRead ==
    /\ mergePc = "removeRead"
    /\ removeRead' = getFavorites(storage)
    /\ mergePc' = "removeWrite"
    /\ UNCHANGED <<storage, clock, hookVars, repoVars, favVars, auxVars, mergeClient,
                   existingRaces, newRaces, mergeFavorites, mergeIndex,
                   mergeResult>>

\* removeFavorite: await AsyncStorage.setItem(FAVORITES, filteredFavorites);
\* a rejected write is rethrown and ends mergeWithFavorites
MergeRemoveWrite ==
    /\ mergePc = "removeWrite"
    /\ \/ /\ storage' = removeFavoriteWrite(storage, removeRead,
                                            mergeFavorites[mergeIndex].raceId)
          /\ MergeLoopFrom(mergeFavorites, mergeIndex + 1)
       \/ /\ mergePc' = "threw"
          /\ UNCHANGED <<storage, mergeIndex, mergeResult>>
    /\ UNCHANGED <<clock, hookVars, repoVars, favVars, auxVars, mergeClient,
                   existingRaces, newRaces, mergeFavorites, removeRead>>

\* The client calls mergeWithFavorites again with the same newRaces; the
\* races a call returned are the existingRaces of the next call.
MergeAgain ==
    /\ mergePc \in {"returned", "threw"}
    /\ mergeCalls < MaxMerges
    /\ mergeCalls' = mergeCalls + 1
    /\ prevMerge' = [outcome |-> mergePc, result |-> mergeResult,
                     favorites |-> storage.favorites]
    /\ existingRaces' = IF mergePc = "returned" THEN mergeResult
                        ELSE existingRaces
    /\ mergePc' = "getFavorites"
    /\ mergeFavorites' = <<>>
    /\ mergeIndex' = 0
    /\ removeRead' = <<>>
    /\ mergeResult' = <<>>
    /\ UNCHANGED <<storage, clock, hookVars, repoVars, favVars, auxVars, newRaces,
                   syncMerged>>

\* The client calls merge(existingRaces, newRaces) with its first lists.
MergeSync ==
    /\ mergeCalls = 1
    /\ syncMerged.isNull
    /\ syncMerged' = SomeRaces(merge(existingRaces, newRaces))
    /\ UNCHANGED <<storage, clock, hookVars, repoVars, favVars, auxVars, mergePc,
                   existingRaces, newRaces, mergeFavorites, mergeIndex,
                   removeRead, mergeResult, mergeCalls, prevMerge>>

NextMerge ==
    \/ MergeGetFavorites
    \/ MergeRemoveRead
    \/ MergeRemoveWrite
    \/ MergeAgain
    \/ MergeSync

StoredFavorites ==
    {NullItem, CorruptItem} \cup
    {JSONstringify(f) : f \in
        {<<>>, <<Favorite("1")>>, <<Favorite("2")>>,
         <<Favorite("1"), Favorite("2")>>, <<Favorite("2"), Favorite("1")>>}}

MergeInputs ==
    {<<>>, <<Race("1")>>, <<Race("2")>>, <<Race("1"), Race("2")>>,
     <<Race("2"), Race("1")>>}

\* the races held before the merge: earlier details, one of them starred
HeldLists ==
    {<<>>,
     <<[id |-> "1", name |-> "old", isFavorited |-> TRUE, isLive |-> FALSE],
       [id |-> "2", name |-> "old", isFavorited |-> FALSE, isLive |-> FALSE]>>}

InitMerge ==
    /\ storage \in {[schedule |-> NullItem, lastUpdated |-> NullItem,
                     favorites |-> f] : f \in StoredFavorites}
    /\ now = 0
    /\ ticks = 0
    /\ HookInit
    /\ RepoIdle
    /\ FavIdle
    /\ CountdownIdle
    /\ SlotsIdle
    /\ InstIdle
    /\ FilterHookIdle
    /\ ParserIdle
    /\ FilterIdle
    /\ mergePc = "getFavorites"
    /\ existingRaces \in HeldLists
    /\ newRaces \in MergeInputs
    /\ mergeFavorites = <<>>
    /\ mergeIndex = 0
    /\ removeRead = <<>>
    /\ mergeResult = <<>>
    /\ mergeCalls = 1
    /\ prevMerge = NoMerge
    /\ syncMerged = NullRaces

SpecMerge == InitMerge /\ [][NextMerge]_vars

----------------------------------------------------------------------------
(* AsyncStorageFavoritesRepository, called by the useFavorites instances:  *)
(* addFavorite and removeFavorite calls whose awaits interleave            *)

\* addFavorite, removeFavorite or isFavorite: the call, up to the getItem
FavCall(c) ==
    /\ favPc[c] = "idle"
    /\ favCalls < MaxFavCalls
    /\ \E op \in {"add", "remove", "isFavorite"}, id \in RaceIds :
          favOp' = [favOp EXCEPT ![c] = [op |-> op, raceId |-> id]]
    /\ favPc' = [favPc EXCEPT ![c] = "getFavorites"]
    /\ favCalls' = favCalls + 1
    /\ favOutcome' = [favOutcome EXCEPT ![c] = "none"]
    /\ overlapped' = (overlapped \/ \E d \in Callers \ {c} : favPc[d] # "idle")
    /\ UNCHANGED <<storage, clock, hookVars, repoVars, mergeVars, auxVars, favRead,
                   lastDone>>

\* Mutant of FavRead: an undecodable store makes the call throw
FavReadCorruptThrows(c) ==
    /\ favPc[c] = "getFavorites"
    /\ IF storage.favorites.kind = "corrupt"
       THEN /\ favPc' = [favPc EXCEPT ![c] = "idle"]
            /\ favOutcome' = [favOutcome EXCEPT ![c] = "threw"]
            /\ UNCHANGED favRead
       ELSE /\ favRead' = [favRead EXCEPT ![c] = getFavorites(storage)]
            /\ IF favOp[c].op = "isFavorite"
               THEN /\ favPc' = [favPc EXCEPT ![c] = "idle"]
                    /\ favOutcome' = [favOutcome EXCEPT ![c] =
                          IF isFavorite(storage, favOp[c].raceId)
                          THEN "true" ELSE "false"]
               ELSE /\ favPc' = [favPc EXCEPT ![c] = "setItem"]
                    /\ UNCHANGED favOutcome
    /\ UNCHANGED <<storage, clock, hookVars, repoVars, mergeVars, auxVars, favOp,
                   favCalls, lastDone, overlapped>>

\* const favorites = await this.getFavorites(); isFavorite returns
\* favorites.some(...) here
FavRead(c) ==
    /\ favPc[c] = "getFavorites"
    /\ favRead' = [favRead EXCEPT ![c] = getFavorites(storage)]
    /\ IF favOp[c].op = "isFavorite"
       THEN /\ favPc' = [favPc EXCEPT ![c] = "idle"]
            /\ favOutcome' = [favOutcome EXCEPT ![c] =
                  IF isFavorite(storage, favOp[c].raceId)
                  THEN "true" ELSE "false"]
       ELSE /\ favPc' = [favPc EXCEPT ![c] = "setItem"]
            /\ UNCHANGED favOutcome
    /\ UNCHANGED <<storage, clock, hookVars, repoVars, mergeVars, auxVars, favOp,
                   favCalls, lastDone, overlapped>>

\* await AsyncStorage.setItem(FAVORITES, ...); a rejected write is rethrown
FavWrite(c) ==
    /\ favPc[c] = "setItem"
    /\ \/ /\ storage' = IF favOp[c].op = "add"
                        THEN addFavoriteWrite(storage, favRead[c],
                                              Favorite(favOp[c].raceId))
                        ELSE removeFavoriteWrite(storage, favRead[c],
                                                 favOp[c].raceId)
          /\ favOutcome' = [favOutcome EXCEPT ![c] = "returned"]
          /\ lastDone' = [lastDone EXCEPT ![favOp[c].raceId] = favOp[c].op]
       \/ /\ favOutcome' = [favOutcome EXCEPT ![c] = "threw"]
          /\ UNCHANGED <<storage, lastDone>>
    /\ favPc' = [favPc EXCEPT ![c] = "idle"]
    /\ UNCHANGED <<clock, hookVars, repoVars, mergeVars, auxVars, favOp, favRead,
                   favCalls, overlapped>>

NextFavRepo == \E c \in Callers : FavCall(c) \/ FavRead(c) \/ FavWrite(c)

InitFavRepo ==
    /\ storage \in {[schedule |-> NullItem, lastUpdated |-> NullItem,
                     favorites |-> f] : f \in StoredFavorites}
    /\ now = 0
    /\ ticks = 0
    /\ HookInit
    /\ RepoIdle
    /\ MergeIdle
    /\ FavIdle
    /\ CountdownIdle
    /\ SlotsIdle
    /\ InstIdle
    /\ FilterHookIdle
    /\ ParserIdle
    /\ FilterIdle

SpecFavRepo == InitFavRepo /\ [][NextFavRepo]_vars

----------------------------------------------------------------------------
(* dateUtils.isRaceLive and formatters.formatCountdown *)

\* Mutant of isRaceLive: the end instant is excluded
isRaceLiveEndExcluded(startTime, durationMinutes, t) ==
    LET start == parseISO(startTime)
        end == start + durationMinutes * 60 * 1000
    IN  t >= start /\ t < end

\* isRaceLive(startTime, durationMinutes) at Date.now() = t
isRaceLive(startTime, durationMinutes, t) ==
    LET start == parseISO(startTime)
        end == start + durationMinutes * 60 * 1000
    IN  t >= start /\ t <= end

\* The countdown texts: "Live", "Starting now", `${a}m`, `${a}h ${b}m` and
\* `${a}d ${b}h`, as the template and the numbers put into it
Countdown(kind, a, b) == [kind |-> kind, a |-> a, b |-> b]

\* Mutant of formatCountdown: the minutes are rounded up
formatCountdownCeil(startTime, t) ==
    LET diffMs == parseISO(startTime) - t
        totalMinutes == (diffMs + 59999) \div 60000
        totalHours == totalMinutes \div 60
        totalDays == totalHours \div 24
    IN  IF diffMs < 0 THEN Countdown("Live", 0, 0)
        ELSE IF diffMs < 60000 THEN Countdown("Starting now", 0, 0)
        ELSE IF totalDays > 0 THEN Countdown("d h", totalDays, totalHours % 24)
        ELSE IF totalHours > 0 THEN Countdown("h m", totalHours, totalMinutes % 60)
        ELSE Countdown("m", totalMinutes, 0)

\* formatCountdown(startTime) at Date.now() = t
formatCountdown(startTime, t) ==
    LET diffMs == parseISO(startTime) - t
        totalMinutes == diffMs \div 60000
        totalHours == totalMinutes \div 60
        totalDays == totalHours \div 24
    IN  IF diffMs < 0 THEN Countdown("Live", 0, 0)
        ELSE IF diffMs < 60000 THEN Countdown("Starting now", 0, 0)
        ELSE IF totalDays > 0 THEN Countdown("d h", totalDays, totalHours % 24)
        ELSE IF totalHours > 0 THEN Countdown("h m", totalHours, totalMinutes % 60)
        ELSE Countdown("m", totalMinutes, 0)

----------------------------------------------------------------------------
(* useCountdownTimer: a RaceCard's countdown, its effect and its interval  *)

\* setInterval(updateCountdown, 60000)
IntervalMs == 60000

\* Start times and durations of the displayed race: the bands of the
\* countdown and the ends of the live window lie 0, 1 or 2 ms from them.
StartTimes ==
    {toISOString(ms) : ms \in {0, 1, 60000, 3600000, 9000000, 86400000,
                               194400000}}
Durations == {1, 40}

\* The clock between renders and callbacks: 1 ms, or up to the interval
ElapseSteps == {1, IntervalMs}

\* updateCountdown(): setCountdown(formatCountdown(startTime));
\* setIsLive(isRaceLive(startTime, durationMinutes))
updateCountdown(v, startTime, durationMinutes) ==
    [v EXCEPT !.countdown = formatCountdown(startTime, now),
              !.isLive = isRaceLive(startTime, durationMinutes, now),
              !.shownAt = now]

\* const intervalId = setInterval(updateCountdown, 60000), the callback
\* closing over the startTime and durationMinutes of this render
NewInterval(id, startTime, durationMinutes) ==
    [id |-> id, startTime |-> startTime, durationMinutes |-> durationMinutes,
     due |-> now + IntervalMs]

\* clearInterval(intervalId)
clearInterval(set, id) == {t \in set : t.id # id}

\* The component mounts: first render and effect
ViewMount ==
    /\ ~view.mounted
    /\ viewEvents < MaxViewEvents
    /\ viewEvents' = viewEvents + 1
    /\ \E startTime \in StartTimes, durationMinutes \in Durations :
          /\ view' = updateCountdown(
                        [view EXCEPT !.mounted = TRUE,
                                     !.startTime = startTime,
                                     !.durationMinutes = durationMinutes,
                                     !.intervalId = viewEvents'],
                        startTime, durationMinutes)
          /\ timers' = timers \cup
                {NewInterval(viewEvents', startTime, durationMinutes)}
    /\ UNCHANGED <<storage, clock, hookVars, repoVars, mergeVars, favVars,
                   parserVars, filterVars, moreVars, fires>>

\* Mutant of ViewChange: the effect runs again without the cleanup
ViewChangeNoCleanup ==
    /\ view.mounted
    /\ viewEvents < MaxViewEvents
    /\ viewEvents' = viewEvents + 1
    /\ \E startTime \in StartTimes, durationMinutes \in Durations :
          /\ <<startTime, durationMinutes>> #
                <<view.startTime, view.durationMinutes>>
          /\ view' = updateCountdown(
                        [view EXCEPT !.startTime = startTime,
                                     !.durationMinutes = durationMinutes,
                                     !.intervalId = viewEvents'],
                        startTime, durationMinutes)
          /\ timers' = timers \cup
                {NewInterval(viewEvents', startTime, durationMinutes)}
    /\ UNCHANGED <<storage, clock, hookVars, repoVars, mergeVars, favVars,
                   parserVars, filterVars, moreVars, fires>>

\* startTime or durationMinutes change: cleanup of the previous effect,
\* then the effect again
ViewChange ==
    /\ view.mounted
    /\ viewEvents < MaxViewEvents
    /\ viewEvents' = viewEvents + 1
    /\ \E startTime \in StartTimes, durationMinutes \in Durations :
          /\ <<startTime, durationMinutes>> #
                <<view.startTime, view.durationMinutes>>
          /\ view' = updateCountdown(
                        [view EXCEPT !.startTime = startTime,
                                     !.durationMinutes = durationMinutes,
                                     !.intervalId = viewEvents'],
                        startTime, durationMinutes)
          /\ timers' = clearInterval(timers, view.intervalId) \cup
                {NewInterval(viewEvents', startTime, durationMinutes)}
    /\ UNCHANGED <<storage, clock, hookVars, repoVars, mergeVars, favVars,
                   parserVars, filterVars, moreVars, fires>>

\* The component unmounts: cleanup of the effect
ViewUnmount ==
    /\ view.mounted
    /\ viewEvents < MaxViewEvents
    /\ viewEvents' = viewEvents + 1
    /\ view' = [view EXCEPT !.mounted = FALSE]
    /\ timers' = clearInterval(timers, view.intervalId)
    /\ UNCHANGED <<storage, clock, hookVars, repoVars, mergeVars, favVars,
                   parserVars, filterVars, moreVars, fires>>

\* An interval that is due runs its callback and is due again 60 s later
TimerFire ==
    /\ fires < MaxFires
    /\ fires' = fires + 1
    /\ \E t \in timers :
          /\ now = t.due
          /\ view' = updateCountdown(view, t.startTime, t.durationMinutes)
          /\ timers' = (timers \ {t}) \cup
                {[t EXCEPT !.due = t.due + IntervalMs]}
    /\ UNCHANGED <<storage, clock, hookVars, repoVars, mergeVars, favVars,
                   parserVars, filterVars, moreVars, viewEvents>>

\* Time passes, not beyond the instant an interval is due
Elapse ==
    /\ ticks < MaxTicks
    /\ ticks' = ticks + 1
    /\ \E d \in ElapseSteps :
          /\ \A t \in timers : now + d <= t.due
          /\ now' = now + d
    /\ UNCHANGED <<storage, hookVars, repoVars, mergeVars, favVars, auxVars>>

NextCountdown ==
    \/ ViewMount
    \/ ViewChange
    \/ ViewUnmount
    \/ TimerFire
    \/ Elapse

SpecCountdown == Init /\ [][NextCountdown]_vars

----------------------------------------------------------------------------
(* RaceDataParser.parse: validation of a batch of raw races *)

\* A raw field that is missing, and one that is null
Undefined == "undefined"
Null == "null"

\* Number(value) of a value that is missing or not numeric
NaN == -1000000

\* Number(value) of a raw durationMinutes or repeatInterval
Number(value) ==
    CASE value = "45" -> 45
      [] value = "40" -> 40
      [] value = "0" -> 0
      [] value = "-5" -> -5
      [] OTHER -> NaN

\* A numeric field of a Race that is null
NullNumber == -2000000

\* Number.isFinite
isFinite(n) == n # NaN

\* isValidISOString: a text that parses to a date, with 'T' and a timezone
isValidISOString(item) == item.kind = "text"

\* validateRequiredString passes
validateRequiredString(value) == value \notin {Undefined, Null, ""}

\* validateEnum passes
validateEnum(value, validValues) == value \in validValues

RaceTypes == {"daily", "weekly", "special"}
CarClasses == {"LMP2", "Hypercar", "LMGT3", "Multi-class"}
WeatherConditions == {"Clear", "Dynamic", "Real Weather"}
TimesOfDay == {"Morning", "Afternoon", "Sunset", "Night", "Full Day Cycle"}
LicenseRequirements == {"Bronze", "Silver", "Gold"}
RaceTiers == {"beginner", "intermediate", "advanced"}

\* validateAndTransform: the field whose check throws, in the order of the
\* checks, or "none"
InvalidField(raw) ==
    IF ~validateRequiredString(raw.id) THEN "id"
    ELSE IF ~validateRequiredString(raw.trackName) THEN "trackName"
    ELSE IF ~validateEnum(raw.type, RaceTypes) THEN "type"
    ELSE IF ~validateEnum(raw.carClass, CarClasses) THEN "carClass"
    ELSE IF ~validateEnum(raw.weatherCondition, WeatherConditions)
         THEN "weatherCondition"
    ELSE IF ~validateEnum(raw.timeOfDay, TimesOfDay) THEN "timeOfDay"
    ELSE IF ~validateEnum(raw.licenseRequirement, LicenseRequirements)
         THEN "licenseRequirement"
    ELSE IF raw.tier \notin {Undefined, Null} /\ ~validateEnum(raw.tier, RaceTiers)
         THEN "tier"
    ELSE IF ~isValidISOString(raw.startTime) THEN "startTime"
    ELSE IF ~isFinite(Number(raw.durationMinutes))
            \/ Number(raw.durationMinutes) <= 0
         THEN "durationMinutes"
    ELSE IF /\ raw.repeatInterval \notin {Undefined, Null}
            /\ \/ ~isFinite(Number(raw.repeatInterval))
               \/ Number(raw.repeatInterval) <= 0
         THEN "repeatInterval"
    ELSE "none"

\* validateAndTransform: the Race returned for a raw race that passes
validateAndTransform(raw, t) ==
    [id |-> raw.id,
     type |-> raw.type,
     tier |-> IF raw.tier \notin {Undefined, Null} THEN raw.tier ELSE Null,
     trackName |-> raw.trackName,
     carClass |-> raw.carClass,
     startTime |-> raw.startTime,
     durationMinutes |-> Number(raw.durationMinutes),
     weatherCondition |-> raw.weatherCondition,
     timeOfDay |-> raw.timeOfDay,
     licenseRequirement |-> raw.licenseRequirement,
     repeatInterval |-> IF raw.repeatInterval \notin {Undefined, Null}
                        THEN Number(raw.repeatInterval) ELSE NullNumber,
     isLive |-> isRaceLive(raw.startTime, Number(raw.durationMinutes), t)]

\* Mutant of parse: the raw races that fail validation are left out
parseSkipInvalid(data, t) ==
    LET valid(raw) == InvalidField(raw) = "none"
        kept == SelectSeq(data, valid)
    IN  [outcome |-> "returned",
         result |-> [i \in 1..Len(kept) |-> validateAndTransform(kept[i], t)],
         error |-> NoValidationError]

\* parse(data): data.map(validateAndTransform); the first throw ends it
parse(data, t) ==
    LET invalid == {i \in 1..Len(data) : InvalidField(data[i]) # "none"}
        first == CHOOSE i \in invalid : \A j \in invalid : i <= j
    IN  IF invalid = {}
        THEN [outcome |-> "returned",
              result |-> [i \in 1..Len(data) |-> validateAndTransform(data[i], t)],
              error |-> NoValidationError]
        ELSE [outcome |-> "threw",
              result |-> <<>>,
              error |-> [index |-> first, field |-> InvalidField(data[first])]]

\* A daily race as the schedule source delivers it
RawDaily ==
    [id |-> "1", type |-> "daily", tier |-> "intermediate",
     trackName |-> "Monza", carClass |-> "Hypercar",
     startTime |-> toISOString(0), durationMinutes |-> "45",
     weatherCondition |-> "Clear", timeOfDay |-> "Afternoon",
     licenseRequirement |-> "Bronze", repeatInterval |-> "40"]

\* Raw races: the daily race, a weekly race, and each of them with one
\* field changed
RawRaces ==
    {RawDaily,
     [RawDaily EXCEPT !.type = "weekly", !.tier = Null, !.repeatInterval = Null],
     [RawDaily EXCEPT !.type = "weekly", !.repeatInterval = Null],
     [RawDaily EXCEPT !.tier = Undefined],
     [RawDaily EXCEPT !.id = Undefined],
     [RawDaily EXCEPT !.id = ""],
     [RawDaily EXCEPT !.trackName = Undefined],
     [RawDaily EXCEPT !.type = "monthly"],
     [RawDaily EXCEPT !.type = Undefined],
     [RawDaily EXCEPT !.carClass = "GT4"],
     [RawDaily EXCEPT !.weatherCondition = Undefined],
     [RawDaily EXCEPT !.tier = "expert"],
     [RawDaily EXCEPT !.startTime = CorruptItem],
     [RawDaily EXCEPT !.startTime = NullItem],
     [RawDaily EXCEPT !.durationMinutes = "0"],
     [RawDaily EXCEPT !.durationMinutes = "-5"],
     [RawDaily EXCEPT !.durationMinutes = Undefined],
     [RawDaily EXCEPT !.repeatInterval = "0"]}

RECURSIVE Batches(_)
Batches(n) ==
    IF n = 0 THEN {<<>>}
    ELSE Batches(n - 1) \cup
         {Append(b, raw) : b \in {c \in Batches(n - 1) : Len(c) = n - 1},
                           raw \in RawRaces}

\* const races = parser.parse(data)
ParserParse ==
    /\ parserOutcome = "none"
    /\ LET r == parse(parserInput, now)
       IN  /\ parserOutcome' = r.outcome
           /\ parserResult' = r.result
           /\ parserError' = r.error
    /\ UNCHANGED <<storage, clock, hookVars, repoVars, mergeVars, favVars,
                   countdownVars, filterVars, moreVars, parserInput>>

NextParser == ParserParse

InitParser ==
    /\ storage \in InitialStorages
    /\ now = 0
    /\ ticks = 0
    /\ HookInit
    /\ RepoIdle
    /\ MergeIdle
    /\ FavIdle
    /\ CountdownIdle
    /\ SlotsIdle
    /\ InstIdle
    /\ FilterHookIdle
    /\ FilterIdle
    /\ parserInput \in Batches(MaxBatch)
    /\ parserOutcome = "none"
    /\ parserResult = <<>>
    /\ parserError = NoValidationError

SpecParser == InitParser /\ [][NextParser]_vars

----------------------------------------------------------------------------
(* Schedule filters *)

\* Mutant of filterByType: "all" is treated as one more category
filterByTypeAllAsCategory(list, filter) ==
    LET matches(race) == race.type = filter
    IN  SelectSeq(list, matches)

\* filterByType(races, filter)
filterByType(list, filter) ==
    LET matches(race) == race.type = filter
    IN  IF filter = "all" THEN list ELSE SelectSeq(list, matches)

\* The values of RaceFilter that filterByType takes
TypeFilters == {"all"} \cup RaceTypes

\* A race of the list under the filter; its id is its place in the list
TypedRace(id, type) == [id |-> id, type |-> type]

RECURSIVE TypedLists(_)
TypedLists(n) ==
    IF n = 0 THEN {<<>>}
    ELSE TypedLists(n - 1) \cup
         {Append(l, TypedRace(n, type)) :
             l \in {k \in TypedLists(n - 1) : Len(k) = n - 1},
             type \in RaceTypes}

\* const shown = filterByType(races, filter)
FilterByType ==
    /\ filterSelector = "none"
    /\ \E filter \in TypeFilters :
          /\ filterSelector' = filter
          /\ filterResult' = filterByType(filterRaces, filter)
    /\ UNCHANGED <<storage, clock, hookVars, repoVars, mergeVars, favVars,
                   countdownVars, parserVars, moreVars, filterRaces, filterFavoriteIds>>

\* Mutant of filterByFavorites: the races come in the order of favoriteIds
filterByFavoritesInIdOrder(list, favoriteIds) ==
    LET raceOf(i) == CHOOSE k \in 1..Len(list) : list[k].id = favoriteIds[i]
        present == {i \in 1..Len(favoriteIds) :
                       \E k \in 1..Len(list) : list[k].id = favoriteIds[i]}
        RECURSIVE from(_)
        from(i) == IF i > Len(favoriteIds) THEN <<>>
                   ELSE IF i \in present THEN <<list[raceOf(i)]>> \o from(i + 1)
                   ELSE from(i + 1)
    IN  from(1)

\* filterByFavorites(races, favoriteIds)
filterByFavorites(list, favoriteIds) ==
    LET favoriteSet == {favoriteIds[i] : i \in 1..Len(favoriteIds)}
        has(race) == race.id \in favoriteSet
    IN  IF Len(favoriteIds) = 0 THEN <<>> ELSE SelectSeq(list, has)

\* Lists of favorite ids: up to two ids, in either order, of races that are
\* in the list or not
FavoriteIdLists ==
    LET ids == 1..(MaxFilterLen + 1)
    IN  {<<>>} \cup {<<a>> : a \in ids}
               \cup {p \in {<<a, b>> : a \in ids, b \in ids} : p[1] # p[2]}

\* const shown = filterByFavorites(races, favoriteIds)
FilterByFavorites ==
    /\ filterSelector = "none"
    /\ \E favoriteIds \in FavoriteIdLists :
          /\ filterSelector' = "favorites"
          /\ filterFavoriteIds' = favoriteIds
          /\ filterResult' = filterByFavorites(filterRaces, favoriteIds)
    /\ UNCHANGED <<storage, clock, hookVars, repoVars, mergeVars, favVars,
                   countdownVars, parserVars, moreVars, filterRaces>>

NextFilter == FilterByType \/ FilterByFavorites

InitFilter ==
    /\ storage \in InitialStorages
    /\ now = 0
    /\ ticks = 0
    /\ HookInit
    /\ RepoIdle
    /\ MergeIdle
    /\ FavIdle
    /\ CountdownIdle
    /\ SlotsIdle
    /\ InstIdle
    /\ FilterHookIdle
    /\ ParserIdle
    /\ filterRaces \in TypedLists(MaxFilterLen)
    /\ filterSelector = "none"
    /\ filterFavoriteIds = <<>>
    /\ filterResult = <<>>

SpecFilter == InitFilter /\ [][NextFilter]_vars

----------------------------------------------------------------------------
(* Next slots today: getNextSlots of the data model *)

DayMs == 86400000
SlotLimit == 4

\* Date.getDate(): the day of the month in local time, for a device whose
\* local time is UTC and an instant of January 1970
getDate(ms) == (ms \div DayMs) + 1

\* The while loop of getNextSlots, from `current` on
RECURSIVE SlotsLoop(_, _, _, _)
SlotsLoop(current, slots, repeatInterval, t) ==
    IF Len(slots) < SlotLimit /\ getDate(current) = getDate(t)
    THEN SlotsLoop(current + repeatInterval * 60 * 1000,
                   IF current > t THEN Append(slots, current) ELSE slots,
                   repeatInterval, t)
    ELSE slots

\* getNextSlots(race), called at time t
getNextSlots(race, t) ==
    IF race.type # "daily" \/ race.repeatInterval \in {NullNumber, 0}
    THEN <<>>
    ELSE SlotsLoop(parseISO(race.startTime), <<>>, race.repeatInterval, t)

HourMs == 3600000

\* Races with and without a repeat interval that start today, on the day
\* before and on the day after
SlotEvents ==
    [type : {"daily", "weekly"},
     startTime : {toISOString(DayMs - HourMs), toISOString(DayMs),
                  toISOString(DayMs + 6 * HourMs),
                  toISOString(DayMs + 20 * HourMs), toISOString(2 * DayMs)},
     repeatInterval : {NullNumber, 60, 360}]

\* The instants of today at which getNextSlots is called
SlotNows ==
    {DayMs, DayMs + 5 * HourMs, DayMs + 6 * HourMs, DayMs + 21 * HourMs,
     DayMs + 23 * HourMs, 2 * DayMs - 1}

\* const slots = getNextSlots(race)
GetNextSlots ==
    /\ ~slotsCalled
    /\ slotsCalled' = TRUE
    /\ slotsResult' = getNextSlots(slotsEvent, now)
    /\ UNCHANGED <<storage, clock, hookVars, repoVars, mergeVars, favVars,
                   countdownVars, parserVars, filterVars, filterHookVars,
                   instVars, slotsEvent>>

NextSlots == GetNextSlots

InitSlots ==
    /\ storage \in InitialStorages
    /\ now \in SlotNows
    /\ ticks = 0
    /\ HookInit
    /\ RepoIdle
    /\ MergeIdle
    /\ FavIdle
    /\ ParserIdle
    /\ FilterIdle
    /\ view = NoView
    /\ timers = {}
    /\ viewEvents = 0
    /\ fires = 0
    /\ FilterHookIdle
    /\ InstIdle
    /\ slotsEvent \in SlotEvents
    /\ slotsCalled = FALSE
    /\ slotsResult = <<>>

SpecSlots == InitSlots /\ [][NextSlots]_vars

----------------------------------------------------------------------------
(* useRaceFilters: the selected filter and its persistence *)

\* isValidRaceFilter
isValidRaceFilter(value) ==
    value \in {"all", "daily", "weekly", "special", "favorites"}

\* storedFilter && isValidRaceFilter(storedFilter)
StoredFilterUsable(item) ==
    item.kind = "text" /\ item.val # "" /\ isValidRaceFilter(item.val)

\* The filters the user picks in the FilterBar
Choices == {"all", "daily", "favorites"}

\* What SELECTED_FILTER holds when the app starts for the first time
InitialFilterItems ==
    {NullItem, TextItem("weekly"), TextItem("bogus"), TextItem("")}

\* Mutant of FilterLoad: the stored filter is taken without validation
FilterLoadUnchecked ==
    /\ filterLoadPc = "getItem"
    /\ selectedFilter' = IF filterItem.kind = "text" /\ filterItem.val # ""
                         THEN filterItem.val ELSE selectedFilter
    /\ filterIsLoading' = FALSE
    /\ filterLoadPc' = "done"
    /\ UNCHANGED <<storage, clock, hookVars, repoVars, mergeVars, favVars,
                   countdownVars, parserVars, filterVars, slotsVars, instVars,
                   filterItem, setPending, setCalls, restarts, lastCompleted,
                   lastPersisted, lastChosen, chosenEarly>>

\* loadPersistedFilter resumes from getItem(SELECTED_FILTER)
FilterLoad ==
    /\ filterLoadPc = "getItem"
    /\ selectedFilter' = IF StoredFilterUsable(filterItem)
                         THEN filterItem.val ELSE selectedFilter
    /\ filterIsLoading' = FALSE
    /\ filterLoadPc' = "done"
    /\ UNCHANGED <<storage, clock, hookVars, repoVars, mergeVars, favVars,
                   countdownVars, parserVars, filterVars, slotsVars, instVars,
                   filterItem, setPending, setCalls, restarts, lastCompleted,
                   lastPersisted, lastChosen, chosenEarly>>

\* setSelectedFilter(filter) up to its await of setItem
SetSelectedFilter(filter) ==
    /\ setCalls < MaxSetCalls
    /\ setCalls' = setCalls + 1
    /\ selectedFilter' = filter
    /\ setPending' = setPending \cup {[call |-> setCalls + 1, filter |-> filter]}
    /\ lastChosen' = filter
    /\ chosenEarly' = (chosenEarly \/ filterLoadPc = "getItem")
    /\ UNCHANGED <<storage, clock, hookVars, repoVars, mergeVars, favVars,
                   countdownVars, parserVars, filterVars, slotsVars, instVars,
                   filterItem, filterIsLoading, filterLoadPc, restarts,
                   lastCompleted, lastPersisted>>

\* setSelectedFilter resumes from setItem(SELECTED_FILTER, filter), which
\* stored the filter or rejected; a rejection is caught and logged
SetItemDone(p) ==
    /\ p \in setPending
    /\ setPending' = setPending \ {p}
    /\ lastCompleted' = p.filter
    /\ \/ /\ filterItem' = TextItem(p.filter)
          /\ lastPersisted' = p.filter
       \/ UNCHANGED <<filterItem, lastPersisted>>
    /\ UNCHANGED <<storage, clock, hookVars, repoVars, mergeVars, favVars,
                   countdownVars, parserVars, filterVars, slotsVars, instVars,
                   selectedFilter, filterIsLoading, filterLoadPc, setCalls,
                   restarts, lastChosen, chosenEarly>>

\* The app is closed and started again: the hook mounts with its initial
\* state and AsyncStorage keeps what it holds
FilterRestart ==
    /\ restarts < MaxRestarts
    /\ filterLoadPc = "done"
    /\ setPending = {}
    /\ restarts' = restarts + 1
    /\ selectedFilter' = "all"
    /\ filterIsLoading' = TRUE
    /\ filterLoadPc' = "getItem"
    /\ lastChosen' = "none"
    /\ chosenEarly' = FALSE
    /\ UNCHANGED <<storage, clock, hookVars, repoVars, mergeVars, favVars,
                   countdownVars, parserVars, filterVars, slotsVars, instVars,
                   filterItem, setPending, setCalls, lastCompleted,
                   lastPersisted>>

NextFilterHook ==
    \/ FilterLoad
    \/ \E filter \in Choices : SetSelectedFilter(filter)
    \/ \E p \in setPending : SetItemDone(p)
    \/ FilterRestart

InitFilterHook ==
    /\ storage \in InitialStorages
    /\ now = 0
    /\ ticks = 0
    /\ HookInit
    /\ RepoIdle
    /\ MergeIdle
    /\ FavIdle
    /\ CountdownIdle
    /\ ParserIdle
    /\ FilterIdle
    /\ SlotsIdle
    /\ InstIdle
    /\ filterItem \in InitialFilterItems
    /\ selectedFilter = "all"
    /\ filterIsLoading = TRUE
    /\ filterLoadPc = "getItem"
    /\ setPending = {}
    /\ setCalls = 0
    /\ restarts = 0
    /\ lastCompleted = "none"
    /\ lastPersisted = "none"
    /\ lastChosen = "none"
    /\ chosenEarly = FALSE

SpecFilterHook == InitFilterHook /\ [][NextFilterHook]_vars

----------------------------------------------------------------------------
(* useFavorites: each mounted instance and its favorites state.  A call   *)
(* of the repository is one step here; the interleaving of its awaits is   *)
(* the subject of SpecFavRepo.                                             *)

\* loadFavorites resumes from repo.getFavorites()
InstLoad(i) ==
    /\ instPc[i] = "getFavorites"
    /\ instFavorites' = [instFavorites EXCEPT ![i] = getFavorites(storage)]
    /\ instPc' = [instPc EXCEPT ![i] = "ready"]
    /\ UNCHANGED <<storage, clock, hookVars, repoVars, mergeVars, favVars,
                   countdownVars, parserVars, filterVars, slotsVars,
                   filterHookVars, instOp, instCalls, instDone>>

\* addFavorite(raceId) or removeFavorite(raceId) up to its await
InstCall(i, op, raceId) ==
    /\ instPc[i] = "ready"
    /\ instCalls < MaxInstCalls
    /\ instCalls' = instCalls + 1
    /\ instOp' = [instOp EXCEPT ![i] = [op |-> op, raceId |-> raceId]]
    /\ instPc' = [instPc EXCEPT ![i] = "repo"]
    /\ UNCHANGED <<storage, clock, hookVars, repoVars, mergeVars, favVars,
                   countdownVars, parserVars, filterVars, slotsVars,
                   filterHookVars, instFavorites, instDone>>

\* setFavorites(prev => ...) after repo.addFavorite
AddToState(prev, raceId) ==
    IF \E k \in 1..Len(prev) : prev[k].raceId = raceId
    THEN prev ELSE Append(prev, Favorite(raceId))

\* setFavorites(prev => prev.filter(...)) after repo.removeFavorite
RemoveFromState(prev, raceId) ==
    LET keep(f) == f.raceId # raceId
    IN  SelectSeq(prev, keep)

\* addFavorite or removeFavorite resumes from the repository call, which
\* stored the change or rejected; a rejection is rethrown
InstRepoDone(i) ==
    /\ instPc[i] = "repo"
    /\ instPc' = [instPc EXCEPT ![i] = "ready"]
    /\ instOp' = [instOp EXCEPT ![i] = NoOp]
    /\ \/ /\ instOp[i].op = "add"
          /\ storage' = addFavorite(storage, Favorite(instOp[i].raceId))
          /\ instFavorites' = [instFavorites EXCEPT
                                  ![i] = AddToState(@, instOp[i].raceId)]
          /\ instDone' = TRUE
       \/ /\ instOp[i].op = "remove"
          /\ storage' = removeFavorite(storage, instOp[i].raceId)
          /\ instFavorites' = [instFavorites EXCEPT
                                  ![i] = RemoveFromState(@, instOp[i].raceId)]
          /\ instDone' = TRUE
       \/ UNCHANGED <<storage, instFavorites, instDone>>
    /\ UNCHANGED <<clock, hookVars, repoVars, mergeVars, favVars,
                   countdownVars, parserVars, filterVars, slotsVars,
                   filterHookVars, instCalls>>

NextFavHooks ==
    \E i \in Instances :
        \/ InstLoad(i)
        \/ \E op \in {"add", "remove"}, raceId \in RaceIds : InstCall(i, op, raceId)
        \/ InstRepoDone(i)

InitFavHooks ==
    /\ storage \in {[schedule |-> NullItem, lastUpdated |-> NullItem,
                     favorites |-> f] : f \in StoredFavorites}
    /\ now = 0
    /\ ticks = 0
    /\ HookInit
    /\ RepoIdle
    /\ MergeIdle
    /\ FavIdle
    /\ CountdownIdle
    /\ ParserIdle
    /\ FilterIdle
    /\ SlotsIdle
    /\ FilterHookIdle
    /\ InstIdle

SpecFavHooks == InitFavHooks /\ [][NextFavHooks]_vars

----------------------------------------------------------------------------
(* Refresh orchestration *)

\* A refresh orchestration is in flight from the start of its fetch to the
\* end of its save.
InFlight(p) == pc[p] \in {"fetch", "saveEvents", "saveTimestamp"}

\* The persisted cache record: event list and last-updated timestamp
cache == <<storage.schedule, storage.lastUpdated>>

\* C1: two refresh orchestrations (fetch, save) are never in flight at the
\* same time: the load-time refresh and a manual refresh exclude each other.
C1_RefreshMutualExclusion ==
    ~(InFlight("load") /\ InFlight("refresh"))

\* C2: a call replaces the in-memory schedule by the events it fetched only
\* at the step that completes its cache save, and never after one of its
\* awaited steps has failed.
C2_SwapOnlyAfterCompleteSave ==
    [][\A p \in Procs :
          (/\ pc'[p] # pc[p]
           /\ ~freshRaces[p].isNull
           /\ races' # races
           /\ races' = freshRaces[p].val)
          => (pc[p] = "saveTimestamp" /\ thrown'[p] = "none")]_vars

\* C3: a call whose fetch failed never writes the cache: the step at which
\* the fetch fails and every later step of that call leave the stored event
\* list and the stored timestamp as they are, and any step of a call that
\* does change them belongs to a call whose fetch delivered events.
C3_FetchFailureLeavesCache ==
    [][\A p \in Procs :
          pc'[p] # pc[p] =>
             /\ (thrown[p] = "fetch" \/ thrown'[p] = "fetch") => cache' = cache
             /\ cache' # cache => ~freshRaces[p].isNull]_vars

C3_Witness ==
    /\ pc["refresh"] = "done"
    /\ thrown["refresh"] = "fetch"
    /\ storage.schedule.kind = "text"
    /\ storage.lastUpdated = toISOString(0)
    /\ now > 0

\* C4: when the fetch fails the error is set, and when a decodable event
\* list is stored the fallback makes exactly that stored list the schedule.
C4_FetchFailureServesCache ==
    [][\A p \in Procs :
          pc'[p] # pc[p] =>
             /\ (thrown[p] = "none" /\ thrown'[p] = "fetch") => error' # NoError
             /\ (/\ pc[p] = "fbGetCached"
                 /\ thrown[p] = "fetch"
                 /\ storage.schedule.kind = "text")
                => races' = storage.schedule.val]_vars

C4_Witness ==
    /\ pc["load"] = "done"
    /\ pc["refresh"] = "idle"
    /\ thrown["load"] = "fetch"
    /\ error = "fetch"
    /\ storage.schedule.kind = "text"
    /\ races = storage.schedule.val
    /\ races # <<>>

\* C5: a call starts a fetch exactly at its branch, and exactly when it is a
\* manual refresh, or the stored timestamp was stale or missing, or no event
\* list could be read; otherwise it shows the cached list and ends, and
\* writes nothing.  What the call read is what the storage held.
C5_FetchIffManualStaleOrUnreadable ==
    [][\A p \in Procs :
          pc'[p] # pc[p] =>
             /\ pc[p] = "getCached" =>
                   (cached'[p].isNull <=> storage.schedule.kind # "text")
             /\ pc[p] = "isStale" =>
                   (stale'[p] <=>
                      \/ storage.lastUpdated.kind # "text"
                      \/ now - storage.lastUpdated.val > STALE_THRESHOLD_MS)
             /\ pc'[p] = "fetch" <=>
                   /\ pc[p] = "getLastUpdated"
                   /\ (isManualRefresh(p) \/ stale[p] \/ cached[p].isNull)
             /\ (pc[p] = "getLastUpdated" /\ pc'[p] # "fetch") =>
                   /\ races' = cached[p].val
                   /\ storage' = storage
                   /\ pc'[p] = "done"]_vars

\* a manual refresh fetching although the cache is readable and not stale
C5_Witness ==
    /\ pc["refresh"] = "fetch"
    /\ storage.schedule.kind = "text"
    /\ ~isStale(storage, now)

----------------------------------------------------------------------------
(* Refresh and merge *)

\* C6: when a call makes the events it fetched the schedule, the schedule is
\* those events carrying the favorited flags of the stored favorites, the
\* same list is what the cache holds, and no stored favorite is an orphan.
C6_FreshEventsMergedWithFavorites ==
    [][\A p \in Procs :
          (pc[p] = "saveTimestamp" /\ pc'[p] = "getNewLastUpdated") =>
             /\ races' = WithFavoriteStatus(freshRaces[p].val, getFavorites(storage))
             /\ storage'.schedule = JSONstringify(races')
             /\ FavoriteIds(storage') \subseteq IdsOf(freshRaces[p].val)]_vars

----------------------------------------------------------------------------
(* Cache record *)

\* C7: a last-updated timestamp is stored exactly when an event list is.
C7_TimestampIffEventsPersisted ==
    (storage.lastUpdated.kind # "null") <=> (storage.schedule.kind # "null")

\* C8: saveSchedule writes the event list first and leaves the timestamp as
\* it was; when its second write then fails, nothing is rolled back: the new
\* event list stays stored with the previous timestamp.
C8_SaveWritesEventsThenTimestamp ==
    [][/\ (repoPc = "idle" /\ repoPc' = "saveTimestamp") =>
             /\ storage'.schedule = JSONstringify(repoArg')
             /\ storage'.lastUpdated = storage.lastUpdated
       /\ (repoPc = "saveTimestamp" /\ repoOutcome' = "saveTimestampThrew") =>
             /\ storage'.schedule = JSONstringify(repoArg)
             /\ storage'.lastUpdated = storage.lastUpdated]_vars

\* a failed second write: new events stored with a timestamp from the past
C8_Witness ==
    /\ repoPc = "idle"
    /\ repoOutcome = "saveTimestampThrew"
    /\ storage.schedule = JSONstringify(repoArg)
    /\ repoArg # <<>>
    /\ storage.lastUpdated.kind = "text"
    /\ storage.lastUpdated.val + STALE_THRESHOLD_MS < now

----------------------------------------------------------------------------
(* Merge *)

\* C9: when mergeWithFavorites has returned, every stored favorite refers to
\* a race of the fresh list.
C9_NoOrphanAfterMerge ==
    mergePc = "returned" => FavoriteIds(storage) \subseteq IdsOf(newRaces)

\* a merge that returned after removing an orphan and keeping a favorite
C9_Witness ==
    /\ mergePc = "returned"
    /\ \E i \in 1..Len(mergeFavorites) : IsOrphan(mergeFavorites[i], newRaces)
    /\ FavoriteIds(storage) # {}
    /\ FavoriteIds(storage) \subseteq IdsOf(newRaces)

\* The events of a list, without the favorited flag
Events(list) == [i \in 1..Len(list) |-> [id |-> list[i].id, name |-> list[i].name]]

\* C11: the list mergeWithFavorites returns, and the list merge() returns,
\* hold the events of the fresh list and no other, in the fresh list's
\* order; an event of the held list whose id the fresh list lacks is not in
\* the result, starred or not.
C11_MergedListIsFreshList ==
    /\ mergePc = "returned" =>
          /\ Events(mergeResult) = Events(newRaces)
          /\ \A j \in 1..Len(existingRaces) :
                existingRaces[j].id \notin IdsOf(newRaces)
                   => existingRaces[j].id \notin IdsOf(mergeResult)
    /\ ~syncMerged.isNull => Events(syncMerged.val) = Events(newRaces)

\* a first merge that returned the one fresh race, with its new details,
\* and dropped the starred race "1" of the held list
C11_Witness ==
    /\ mergePc = "returned"
    /\ mergeCalls = 1
    /\ ~syncMerged.isNull
    /\ \E j \in 1..Len(existingRaces) :
          /\ existingRaces[j].isFavorited
          /\ existingRaces[j].id \notin IdsOf(mergeResult)
    /\ Len(mergeResult) = 1
    /\ mergeResult[1].name = "new"

\* C12: in the list mergeWithFavorites returns, an event is flagged
\* favorited exactly when the favorite store held a favorite with its id,
\* whatever flag the held copy of the event carried; with an empty store
\* no returned event is flagged.
C12_FlagIffStoredFavorite ==
    mergePc = "returned" =>
        /\ \A i \in 1..Len(mergeResult) :
              /\ mergeResult[i].isFavorited
                    <=> (\E k \in 1..Len(mergeFavorites) :
                            mergeFavorites[k].raceId = mergeResult[i].id)
              /\ mergeResult[i].isFavorited
                    <=> mergeResult[i].id \in FavoriteIds(storage)
        /\ mergeFavorites = <<>>
              => \A i \in 1..Len(mergeResult) : ~mergeResult[i].isFavorited

\* a first merge whose result flags race "2", unflagged in the held list,
\* and does not flag race "1", flagged in the held list
C12_Witness ==
    /\ mergePc = "returned"
    /\ mergeCalls = 1
    /\ Len(existingRaces) = 2
    /\ existingRaces[1].isFavorited
    /\ ~existingRaces[2].isFavorited
    /\ \E i, k \in 1..Len(mergeResult) :
          /\ mergeResult[i].id = existingRaces[1].id
          /\ ~mergeResult[i].isFavorited
          /\ mergeResult[k].id = existingRaces[2].id
          /\ mergeResult[k].isFavorited

\* C13: when mergeWithFavorites has returned and is called again with the
\* same fresh list, it returns the same list and the favorite store is as
\* the call before left it.
C13_MergeIdempotent ==
    (mergePc = "returned" /\ prevMerge.outcome = "returned") =>
        /\ mergeResult = prevMerge.result
        /\ storage.favorites = prevMerge.favorites

\* a second merge that returned, after a first one that removed an orphan
\* and kept a favorite
C13_Witness ==
    /\ mergePc = "returned"
    /\ mergeCalls = 2
    /\ prevMerge.outcome = "returned"
    /\ mergeResult = prevMerge.result
    /\ \E i \in 1..Len(mergeResult) : mergeResult[i].isFavorited
    /\ Len(getFavorites(storage)) = 1
    /\ existingRaces = prevMerge.result

\* C14: when mergeWithFavorites has returned for an empty fresh list, the
\* merged list is empty and the favorite store holds no favorite.
C14_EmptyFreshListDropsAll ==
    (mergePc = "returned" /\ newRaces = <<>>) =>
        /\ mergeResult = <<>>
        /\ getFavorites(storage) = <<>>

\* a merge of the empty list that found two favorites and removed them
C14_Witness ==
    /\ mergePc = "returned"
    /\ newRaces = <<>>
    /\ Len(mergeFavorites) = 2
    /\ Len(existingRaces) = 2
    /\ storage.favorites = JSONstringify(<<>>)

\* C15: mergeWithFavorites does not end by throwing: a removeFavorite that
\* fails in its loop does not keep it from returning the merged list.
C15_MergeCompletesDespiteRemovalFailure ==
    mergePc # "threw"

\* C16: a refresh that makes the events it fetched the schedule leaves no
\* stored favorite whose id those events lack, so that an orphan left in
\* the store is removed by the next refresh that still lacks its id.
C16_OrphanRemovedByNextRefresh ==
    [][\A p \in Procs :
          (pc[p] = "saveTimestamp" /\ pc'[p] = "getNewLastUpdated") =>
             \A id \in FavoriteIds(storage) :
                id \notin IdsOf(freshRaces[p].val)
                   => id \notin FavoriteIds(storage')]_vars

----------------------------------------------------------------------------
(* Staleness and cache reads *)

\* C17: isStale answers true exactly when no valid timestamp is stored or
\* the stored timestamp is more than 24 hours before now; at an age of
\* exactly 24 hours it answers false.
C17_StaleIffNoTimestampOrOver24h ==
    [][\A p \in Procs :
          (pc[p] = "isStale" /\ pc'[p] # pc[p]) =>
             /\ stale'[p] <=>
                   \/ storage.lastUpdated.kind # "text"
                   \/ now - storage.lastUpdated.val > 24 * 60 * 60 * 1000
             /\ (/\ storage.lastUpdated.kind = "text"
                 /\ now - storage.lastUpdated.val = 24 * 60 * 60 * 1000)
                => ~stale'[p]]_vars

\* a call that found the timestamp not stale at an age of exactly 24 hours
C17_Witness ==
    /\ pc["load"] = "getLastUpdated"
    /\ pc["refresh"] = "idle"
    /\ ~stale["load"]
    /\ storage.lastUpdated.kind = "text"
    /\ now - storage.lastUpdated.val = 24 * 60 * 60 * 1000

\* C18: getCachedSchedule always returns; it returns null when no event
\* list is stored, when the stored text does not decode and when the
\* storage read rejects, and the decoded stored list otherwise.
C18_CachedScheduleNullOrDecoded ==
    /\ repoOutcome # "getCachedThrew"
    /\ repoOutcome = "getCachedReturned" =>
          repoResult = IF \/ repoReadFailed
                          \/ storage.schedule.kind = "null"
                          \/ storage.schedule.kind = "corrupt"
                       THEN NullRaces
                       ELSE SomeRaces(storage.schedule.val)

\* a read that rejected while a decodable list was stored
C18_Witness ==
    /\ repoOutcome = "getCachedReturned"
    /\ repoReadFailed
    /\ repoResult = NullRaces
    /\ storage.schedule.kind = "text"
    /\ storage.schedule.val # <<>>

\* C19: a call that reads an undecodable event list gets null, and a call
\* that got null fetches, whatever the timestamp; when the fetch delivers,
\* the call goes on to save.
C19_UndecodableCacheForcesRefresh ==
    [][\A p \in Procs :
          pc'[p] # pc[p] =>
             /\ (pc[p] = "getCached" /\ storage.schedule.kind = "corrupt")
                   => cached'[p].isNull
             /\ (pc[p] = "getLastUpdated" /\ cached[p].isNull)
                   => pc'[p] = "fetch"
             /\ (pc[p] = "fetch" /\ thrown'[p] = "none")
                   => (pc'[p] = "saveEvents" /\ ~freshRaces'[p].isNull)]_vars

\* the mount load about to save what it fetched, while the stored list is
\* undecodable and the stored timestamp is not stale
C19_Witness ==
    /\ pc["load"] = "saveEvents"
    /\ pc["refresh"] = "idle"
    /\ storage.schedule.kind = "corrupt"
    /\ storage.lastUpdated.kind = "text"
    /\ ~isStale(storage, now)

----------------------------------------------------------------------------
(* Favorites store *)

\* C20: the stored favorites list never holds two entries of one raceId.
C20_AtMostOneEntryPerRace ==
    LET favorites == getFavorites(storage)
    IN  \A i, j \in 1..Len(favorites) :
           favorites[i].raceId = favorites[j].raceId => i = j

\* two addFavorite calls for the same race that both read the store before
\* either wrote, and both wrote
C20_Witness ==
    /\ \A c \in Callers :
          /\ favPc[c] = "idle"
          /\ favOp[c] = [op |-> "add", raceId |-> "1"]
          /\ favRead[c] = <<>>
    /\ getFavorites(storage) = <<Favorite("1")>>

\* C21: when each caller has made one addFavorite call, for distinct
\* races, and all the calls have returned, every one of those races is in
\* the stored favorites, however the calls interleaved.
C21_ConcurrentAddsAllStored ==
    (/\ favCalls = Cardinality(Callers)
     /\ \A c \in Callers :
           /\ favPc[c] = "idle"
           /\ favOp[c].op = "add"
           /\ favOutcome[c] = "returned"
     /\ \A c, d \in Callers : c # d => favOp[c].raceId # favOp[d].raceId)
    => \A c \in Callers : isFavorite(storage, favOp[c].raceId)

\* C22: as long as no call has started during another one, isFavorite(id)
\* answers true exactly when the last addFavorite or removeFavorite on id
\* that returned was an addFavorite, whichever instance is asked.
C22_IsFavoriteIffLastCallAdded ==
    [][\A c \in Callers :
          (/\ ~overlapped'
           /\ favPc[c] = "getFavorites"
           /\ favOp[c].op = "isFavorite"
           /\ favPc'[c] = "idle")
          => (favOutcome'[c] = "true"
                 <=> lastDone[favOp[c].raceId] = "add")]_vars

\* instance b answers false for race "1" after instance a added and then
\* removed it, or removed what an earlier session had added
C22_Witness ==
    /\ ~overlapped
    /\ favCalls = 3
    /\ favOp["a"] = [op |-> "remove", raceId |-> "1"]
    /\ favOutcome["a"] = "returned"
    /\ favOp["b"] = [op |-> "isFavorite", raceId |-> "1"]
    /\ favOutcome["b"] = "false"
    /\ lastDone["1"] = "remove"
    /\ lastDone["2"] = "add"

\* C23: with an undecodable stored value getFavorites returns the empty
\* list and does not throw, and an addFavorite whose write is accepted
\* then leaves exactly the added favorite stored.
C23_UndecodableFavoritesReadEmpty ==
    [][\A c \in Callers :
          /\ (/\ favPc[c] = "getFavorites"
              /\ favPc'[c] # favPc[c]
              /\ storage.favorites.kind = "corrupt")
             => (favRead'[c] = <<>> /\ favOutcome'[c] # "threw")
          /\ (/\ favPc[c] = "setItem"
              /\ favOp[c].op = "add"
              /\ storage.favorites.kind = "corrupt"
              /\ favOutcome'[c] = "returned")
             => getFavorites(storage') = <<Favorite(favOp[c].raceId)>>]_vars

\* an addFavorite that read the empty list from an undecodable store
C23_Witness ==
    /\ favPc["a"] = "setItem"
    /\ favOp["a"].op = "add"
    /\ favRead["a"] = <<>>
    /\ storage.favorites.kind = "corrupt"

----------------------------------------------------------------------------
(* Countdown and liveness *)

\* C24: after every step, a mounted countdown view has exactly one
\* interval, which closes over the view's current inputs and is due 60 s
\* after the view's last recomputation, and an unmounted view has none;
\* the state of a view that stays unmounted is not updated any more.
C24_OneTimerCancelledOnTeardown ==
    [][/\ view'.mounted =>
             /\ Cardinality(timers') = 1
             /\ \A t \in timers' :
                   /\ t.id = view'.intervalId
                   /\ t.startTime = view'.startTime
                   /\ t.durationMinutes = view'.durationMinutes
                   /\ t.due = view'.shownAt + 60000
                   /\ now' <= t.due
       /\ ~view'.mounted => timers' = {}
       /\ (~view.mounted /\ ~view'.mounted) => view' = view]_vars

\* the interval of the view's second inputs has run its callback, 60 s
\* after the inputs changed; the interval of the first inputs is gone
C24_Witness ==
    /\ view.mounted
    /\ view.intervalId = 2
    /\ fires = 1
    /\ view.shownAt = now
    /\ now >= 60000
    /\ \A t \in timers : t.id = 2 /\ t.due = now + 60000

C26_CountdownBandsFloor ==
    view.mounted =>
        LET diff == view.startTime.val - view.shownAt
            m == diff \div 60000
            h == diff \div 3600000
            d == diff \div 86400000
        IN  view.countdown =
               IF diff < 0 THEN [kind |-> "Live", a |-> 0, b |-> 0]
               ELSE IF diff < 60000
                    THEN [kind |-> "Starting now", a |-> 0, b |-> 0]
               ELSE IF diff < 3600000 THEN [kind |-> "m", a |-> m, b |-> 0]
               ELSE IF diff < 86400000
                    THEN [kind |-> "h m", a |-> h, b |-> m % 60]
               ELSE [kind |-> "d h", a |-> d, b |-> h % 24]

\* 1 ms less than an hour before the start the view shows "59m"
C26_Witness ==
    /\ view.mounted
    /\ view.startTime.val - view.shownAt = 3599999
    /\ view.countdown = [kind |-> "m", a |-> 59, b |-> 0]

\* C27: no event of an event list written to the cache carries an isLive
\* value.
C27_IsLiveNeverStored ==
    [][(storage'.schedule # storage.schedule /\ storage'.schedule.kind = "text")
          => \A i \in 1..Len(storage'.schedule.val) :
                "isLive" \notin DOMAIN storage'.schedule.val[i]]_vars

----------------------------------------------------------------------------
(* Ingestion validation *)

\* An event with a bad enum value, a missing required field, a non-positive
\* duration or an unparsable start instant
BadEvent(raw) ==
    \/ raw.type \notin {"daily", "weekly", "special"}
    \/ raw.carClass \notin {"LMP2", "Hypercar", "LMGT3", "Multi-class"}
    \/ raw.weatherCondition \notin {"Clear", "Dynamic", "Real Weather"}
    \/ raw.timeOfDay \notin
          {"Morning", "Afternoon", "Sunset", "Night", "Full Day Cycle"}
    \/ raw.licenseRequirement \notin {"Bronze", "Silver", "Gold"}
    \/ raw.tier \notin {"beginner", "intermediate", "advanced", Undefined, Null}
    \/ raw.id \in {Undefined, Null, ""}
    \/ raw.trackName \in {Undefined, Null, ""}
    \/ raw.startTime.kind # "text"
    \/ raw.durationMinutes \notin {"45", "40"}

\* An event with a repeat interval that is given and not positive
BadInterval(raw) == raw.repeatInterval \notin {"45", "40", Undefined, Null}

C29_TierIffDaily ==
    parserOutcome = "returned" =>
        \A i \in 1..Len(parserResult) :
            (parserResult[i].tier # Null) <=> (parserResult[i].type = "daily")

----------------------------------------------------------------------------
(* Filtering by category *)

\* C30: filtering by "all" returns the input list unchanged; filtering by
\* a concrete category returns exactly the events of that category, in
\* the order they have in the input.
C30_ByCategoryKeepsMatchesInOrder ==
    filterSelector \notin {"none", "favorites"} =>
        IF filterSelector = "all"
        THEN filterResult = filterRaces
        ELSE /\ \A j \in 1..Len(filterResult) :
                   /\ filterResult[j].type = filterSelector
                   /\ filterResult[j].id \in 1..Len(filterRaces)
                   /\ filterRaces[filterResult[j].id] = filterResult[j]
             /\ \A i \in 1..Len(filterRaces) :
                   filterRaces[i].type = filterSelector =>
                       \E j \in 1..Len(filterResult) : filterResult[j] = filterRaces[i]
             /\ \A j, k \in 1..Len(filterResult) :
                   j < k => filterResult[j].id < filterResult[k].id

\* "weekly" over a weekly, a daily and a weekly race returns the two weekly
\* races in their order; "all" over the same list is covered by the formula
C30_Witness ==
    /\ filterSelector = "weekly"
    /\ Len(filterRaces) = 3
    /\ filterRaces[1].type = "weekly"
    /\ filterRaces[2].type = "daily"
    /\ filterRaces[3].type = "weekly"
    /\ filterResult = <<filterRaces[1], filterRaces[3]>>

\* C31: filtering by favorites returns exactly the events whose id is in
\* favoriteIds, in the order they have in the event list, whatever the
\* order of favoriteIds.
C31_ByFavoriteKeepsListOrder ==
    filterSelector = "favorites" =>
        LET ids == {filterFavoriteIds[i] : i \in 1..Len(filterFavoriteIds)}
        IN  /\ \A j \in 1..Len(filterResult) :
                  /\ filterResult[j].id \in ids
                  /\ filterResult[j].id \in 1..Len(filterRaces)
                  /\ filterRaces[filterResult[j].id] = filterResult[j]
            /\ \A i \in 1..Len(filterRaces) :
                  filterRaces[i].id \in ids =>
                      \E j \in 1..Len(filterResult) : filterResult[j] = filterRaces[i]
            /\ \A j, k \in 1..Len(filterResult) :
                  j < k => filterResult[j].id < filterResult[k].id

\* favoriteIds <<3, 1>> over three races returns the first and the third
\* race, in that order
C31_Witness ==
    /\ filterSelector = "favorites"
    /\ filterFavoriteIds = <<3, 1>>
    /\ Len(filterRaces) = 3
    /\ filterResult = <<filterRaces[1], filterRaces[3]>>

----------------------------------------------------------------------------
(* Next slots *)

\* C32: for an event with a repeat interval, the next slots are, in
\* ascending order, the first SlotLimit of the instants start + k *
\* repeatInterval minutes that are later than now and are reached before the
\* stepping leaves the local day of now; there may be fewer, or none.
C32_NextSlotsSteppedWithinTheDay ==
    (slotsCalled /\ slotsEvent.repeatInterval > 0) =>
        LET start == slotsEvent.startTime.val
            step == slotsEvent.repeatInterval * 60000
            today(k) == \A j \in 0..k : (start + j * step) \div DayMs = now \div DayMs
            later == {k \in 0..(DayMs \div step) :
                         today(k) /\ start + k * step > now}
            taken == {k \in later : Cardinality({j \in later : j < k}) < 4}
        IN  /\ Len(slotsResult) = Cardinality(taken)
            /\ \A i \in 1..Len(slotsResult) :
                  \E k \in taken :
                      /\ slotsResult[i] = start + k * step
                      /\ Cardinality({j \in taken : j < k}) = i - 1

----------------------------------------------------------------------------
(* The selected filter *)

C39_EarlyChoiceSurvivesLoad ==
    (filterLoadPc = "done" /\ chosenEarly) => selectedFilter = lastChosen

----------------------------------------------------------------------------
(* Merge with an empty fresh list *)

\* C34: merging the held schedule with an empty fresh list returns the held
\* schedule unchanged.
C34_EmptyFreshKeepsCached ==
    (~syncMerged.isNull /\ newRaces = <<>>) => syncMerged.val = existingRaces

----------------------------------------------------------------------------
(* Loading flags and completion *)

\* A loadSchedule call has started and has not reached the end of finally
Running(p) == pc[p] \notin {"idle", "done"}

\* C35: isRefreshing is true as long as a manual refresh is in flight, and
\* isLoading is true as long as a load is in flight, also when they overlap.
C35_FlagsCoverCallsInFlight ==
    /\ Running("refresh") => isRefreshing
    /\ Running("load") => isLoading

\* C36: once every started load and refresh has finished and none of them
\* failed, the schedule in memory is the event list in the stored cache.
C36_ScheduleEqualsCacheWhenIdle ==
    (/\ pc["load"] = "done"
     /\ ~Running("refresh")
     /\ error = NoError
     /\ \A p \in Procs : thrown[p] = "none")
    => /\ storage.schedule.kind = "text"
       /\ races = storage.schedule.val

\* C37: every load or refresh that has started finishes, whether an awaited
\* call failed or not, and when the mount load has finished and no manual
\* refresh is in flight both isLoading and isRefreshing are false.
C37_CallsFinishAndFlagsClear ==
    /\ \A p \in Procs : Running(p) ~> (pc[p] = "done")
    /\ []((pc["load"] = "done" /\ ~Running("refresh"))
            => (~isLoading /\ ~isRefreshing))

\* the load has finished after a failed fetch, the refresh after a failed
\* save, and both flags are false
C37_Witness ==
    /\ pc["load"] = "done"
    /\ pc["refresh"] = "done"
    /\ thrown["load"] = "fetch"
    /\ thrown["refresh"] = "save"
    /\ ~isLoading
    /\ ~isRefreshing

----------------------------------------------------------------------------
(* The instances of useFavorites *)

\* C38: when an addFavorite or removeFavorite call has returned and no
\* instance is loading or calling, every mounted useFavorites instance
\* reports the favorite set the repository holds.
C38_InstancesAgreeWithRepository ==
    (instDone /\ \A i \in Instances : instPc[i] = "ready") =>
        \A i \in Instances :
            {instFavorites[i][k].raceId : k \in 1..Len(instFavorites[i])}
                = FavoriteIds(storage)

----------------------------------------------------------------------------
(* Countdown text and liveness *)

\* C40: the countdown text a view shows is "Live" exactly when the isLive
\* it shows is true.
C40_LiveTextIffIsLive ==
    view.mounted => (view.countdown.kind = "Live" <=> view.isLive)

----------------------------------------------------------------------------
(* Favorites and the held schedule *)

\* C10: whenever no load or refresh is in progress, every stored favorite
\* refers to a race of the schedule held in memory.
C10_FavoritesReferToHeldSchedule ==
    (\A p \in Procs : pc[p] \in {"idle", "done"}) =>
        FavoriteIds(storage) \subseteq IdsOf(races)

====
